---- MODULE Spec2Model ----
(***************************************************************************)
(* Model of corppa.poetry_detection.core: the Span, Excerpt and            *)
(* LabeledExcerpt value types, their construction-time validation, the     *)
(* derived excerpt id, decoding with from_dict, and the realignment of an  *)
(* excerpt against a page text (correct_page_excerpt).                     *)
(*                                                                         *)
(* A Python str is a sequence of one-character strings, so that slicing,   *)
(* formatting and parsing are computed rather than assumed.  An Optional   *)
(* field holds <<>> for None and <<v>> for the value v.  The state is the  *)
(* last call made on the library: its receiver, its argument, the value it *)
(* returned and the exception it raised.                                   *)
(***************************************************************************)
EXTENDS Integers, Sequences, FiniteSets, TLC

VARIABLES self, arg, res, err, op, calls

vars == <<self, arg, res, err, op, calls>>

-----------------------------------------------------------------------------
(* Bounds of the model *)

\* longest generated excerpt text
MaxTextLen == 2
\* longest generated page text
MaxPageLen == 3
\* offsets offered to constructors range over -1..MaxOffset
MaxOffset == 2
\* number of calls made one after the other, each on the result of the last
MaxCalls == 2

-----------------------------------------------------------------------------
(* Strings *)

None == <<>>
Some(v) == <<v>>

Max(a, b) == IF a >= b THEN a ELSE b
Max3(a, b, c) == Max(a, Max(b, c))

\* Python slice s[a:b] for 0-based a, b >= 0; an offset beyond the end of s
\* is clamped to it
Slice(s, a, b) ==
    LET lo == IF a > Len(s) THEN Len(s) ELSE a
        hi == IF b > Len(s) THEN Len(s) ELSE b
    IN SubSeq(s, lo + 1, hi)

\* all strings over the alphabet abc of length at most n
StringsUpTo(abc, n) == UNION {[1..k -> abc] : k \in 0..n}

Digit(d) == <<"0", "1", "2", "3", "4", "5", "6", "7", "8", "9">>[d + 1]

RECURSIVE NatToStr(_)
NatToStr(n) == IF n < 10 THEN <<Digit(n)>> ELSE NatToStr(n \div 10) \o <<Digit(n % 10)>>

\* str(n) for a Python int, as used by an f-string
IntToStr(n) == IF n < 0 THEN <<"-">> \o NatToStr(-n) ELSE NatToStr(n)

-----------------------------------------------------------------------------
(* PairwiseAligner as configured by correct_page_excerpt.  Scores are in   *)
(* half units so that -0.5 is the integer -1.                              *)

match_score == 2
mismatch_score == -1
gap_score == -1
query_left_gap_score == 0
query_right_gap_score == 0

\* variant: every pair of characters scores as a match
SubstitutionScore_always_match(a, b) == match_score

\* score of aligning page character a with excerpt character b
SubstitutionScore(a, b) == IF a = b THEN match_score ELSE mismatch_score

\* score of a page character left unaligned (a gap in the query) once j of
\* the m query characters have been consumed
QueryGapScore(j, m) ==
    IF j = 0 THEN query_left_gap_score
    ELSE IF j = m THEN query_right_gap_score
    ELSE gap_score

\* score of a query character left unaligned (a gap in the target)
TargetGapScore == gap_score

(* One cell of the Needleman-Wunsch matrix for the prefixes target[1..i]   *)
(* and query[1..j]:                                                        *)
(*   f   - the best score of an alignment of the two prefixes;            *)
(*   g   - whether some best-scoring path to the cell has no aligned pair; *)
(*   prs - the pairs <<a, b>> such that some best-scoring path to the cell *)
(*         has its first aligned block starting at target offset a and    *)
(*         its last aligned block ending at target offset b.              *)
BorderCell(f) == [f |-> f, g |-> TRUE, prs |-> {}]

BlockStarts(cell, i0) == {pr[1] : pr \in cell.prs} \cup (IF cell.g THEN {i0} ELSE {})

AlignCell(target, query, i, j, up, diag, left) ==
    LET d == diag.f + SubstitutionScore(target[i], query[j])
        v == up.f + QueryGapScore(j, Len(query))
        h == left.f + TargetGapScore
        best == Max3(d, v, h)
    IN [f |-> best,
        g |-> (v = best /\ up.g) \/ (h = best /\ left.g),
        prs |-> (IF d = best THEN {<<a, i>> : a \in BlockStarts(diag, i - 1)} ELSE {})
                \cup (IF v = best THEN up.prs ELSE {})
                \cup (IF h = best THEN left.prs ELSE {})]

\* row 0: only query characters consumed, each against a gap in the target
RECURSIVE FirstRow(_, _)
FirstRow(query, j) ==
    IF j = 0 THEN <<BorderCell(0)>>
    ELSE FirstRow(query, j - 1) \o <<BorderCell(j * TargetGapScore)>>

\* cells 0..j of row i, given the whole row i-1
RECURSIVE RowUpTo(_, _, _, _, _)
RowUpTo(target, query, i, j, prevRow) ==
    IF j = 0
    THEN <<BorderCell(prevRow[1].f + QueryGapScore(0, Len(query)))>>
    ELSE LET row == RowUpTo(target, query, i, j - 1, prevRow)
         IN row \o <<AlignCell(target, query, i, j, prevRow[j + 1], prevRow[j], row[j])>>

\* row i of the matrix
RECURSIVE MatrixRow(_, _, _)
MatrixRow(target, query, i) ==
    IF i = 0 THEN FirstRow(query, Len(query))
    ELSE LET prevRow == MatrixRow(target, query, i - 1)
         IN IF Len(prevRow) = Len(query) + 1
            THEN RowUpTo(target, query, i, Len(query), prevRow)
            ELSE <<>>

\* the final cell: every optimal global alignment of target and query
FinalCell(target, query) == MatrixRow(target, query, Len(target))[Len(query) + 1]

(* aligner.align(target, query) followed by results[0] and                 *)
(* alignment.aligned[0]: the outcomes the optimal alignments allow.  An    *)
(* empty sequence is rejected by the aligner; an alignment without any     *)
(* aligned block has an empty `aligned` array, whose [0] is an IndexError. *)
AlignRaise(exc) == [raised |-> exc, new_start |-> 0, new_end |-> 0]
AlignErrorMessage(exc) ==
    IF exc = "ValueError" THEN "sequence has zero length" ELSE "index 0 is out of bounds"
AlignReturn(a, b) == [raised |-> "", new_start |-> a, new_end |-> b]

AlignOutcomes(target, query) ==
    IF Len(target) = 0 \/ Len(query) = 0
    THEN {AlignRaise("ValueError")}
    ELSE LET final == FinalCell(target, query)
         IN {AlignReturn(pr[1], pr[2]) : pr \in final.prs}
            \cup (IF final.g THEN {AlignRaise("IndexError")} ELSE {})

-----------------------------------------------------------------------------
(* Names *)

adjudication == <<"a", "d", "j", "u", "d", "i", "c", "a", "t", "i", "o", "n">>
manual == <<"m", "a", "n", "u", "a", "l">>
passim == <<"p", "a", "s", "s", "i", "m">>
xml == <<"x", "m", "l">>
bogus == <<"b", "o", "g", "u", "s">>
refmatcha == <<"r", "e", "f", "m", "a", "t", "c", "h", "a">>
\* an identification method whose name holds the delimiter: "a; b"
a_and_b == <<"a", ";", " ", "b">>

\* Table of supported detection methods and their corresponding prefixes
DETECTION_METHODS ==
    (adjudication :> "a") @@ (manual :> "m") @@ (passim :> "p") @@ (xml :> "x")

\* character sequence used when converting sets to and from delimited string
MULTIVAL_DELIMITER == <<";", " ">>

-----------------------------------------------------------------------------
(* Values returned and exceptions raised *)

NoValue == [cls |-> "NoneType"]
NoError == [exc |-> "", msg |-> "", vals |-> <<>>]
Raise(exc, msg, vals) == [val |-> NoValue, err |-> [exc |-> exc, msg |-> msg, vals |-> vals]]
Return(v) == [val |-> v, err |-> NoError]

-----------------------------------------------------------------------------
(* Span *)

\* Span(start, end, label) with its __post_init__
Span_init(start, end, label) ==
    IF end <= start
    THEN Raise("ValueError", "Start index must be less than end index", <<>>)
    ELSE Return([cls |-> "Span", start |-> start, end |-> end, label |-> label])

Min(a, b) == IF a <= b THEN a ELSE b

\* the values the methods of Span return
Bool(b) == [cls |-> "bool", v |-> b]
PyInt(n) == [cls |-> "int", v |-> n]
\* the float num / den, kept as the exact quotient of two integers
Float(num, den) == [cls |-> "float", num |-> num, den |-> den]

\* variant: only one of the two comparisons is made
has_overlap_one_sided(obj, other, ignore_label) ==
    IF ignore_label \/ obj.label = other.label
    THEN obj.start < other.end
    ELSE FALSE

\* variant: spans that touch count as overlapping
has_overlap_closed(obj, other, ignore_label) ==
    IF ignore_label \/ obj.label = other.label
    THEN obj.start <= other.end /\ other.start <= obj.end
    ELSE FALSE

\* obj.has_overlap(other, ignore_label)
has_overlap(obj, other, ignore_label) ==
    IF ignore_label \/ obj.label = other.label
    THEN obj.start < other.end /\ other.start < obj.end
    ELSE FALSE

\* obj.is_exact_match(other, ignore_label)
is_exact_match(obj, other, ignore_label) ==
    IF obj.start = other.start /\ obj.end = other.end
    THEN ignore_label \/ obj.label = other.label
    ELSE FALSE

\* obj.overlap_length(other, ignore_label)
overlap_length(obj, other, ignore_label) ==
    IF ~has_overlap(obj, other, ignore_label) THEN 0
    ELSE Min(obj.end, other.end) - Max(obj.start, other.start)

\* Span.__len__
Span_len(obj) == obj.end - obj.start

\* variant: the overlap is divided by the length of the receiver
overlap_factor_of_receiver(obj, other, ignore_label) ==
    LET overlap == overlap_length(obj, other, ignore_label)
    IN IF Span_len(obj) < 0 \/ Span_len(other) < 0
       THEN Raise("ValueError", "__len__() should return >= 0", <<>>)
       ELSE IF Span_len(obj) = 0
       THEN Raise("ZeroDivisionError", "division by zero", <<>>)
       ELSE Return(Float(overlap, Span_len(obj)))

\* obj.overlap_factor(other, ignore_label); len() refuses a negative
\* __len__ and the division a zero divisor
overlap_factor(obj, other, ignore_label) ==
    LET overlap == overlap_length(obj, other, ignore_label)
    IN IF Span_len(obj) < 0 \/ Span_len(other) < 0
       THEN Raise("ValueError", "__len__() should return >= 0", <<>>)
       ELSE IF Max(Span_len(obj), Span_len(other)) = 0
       THEN Raise("ZeroDivisionError", "division by zero", <<>>)
       ELSE Return(Float(overlap, Max(Span_len(obj), Span_len(other))))

\* obj.name = value on a Span: the dataclass is not frozen, the attribute
\* is set and __post_init__ does not run again
Span_setattr(obj, name, value) ==
    [obj |-> [obj EXCEPT ![name] = value], err |-> NoError]

-----------------------------------------------------------------------------
(* Excerpt and LabeledExcerpt: the dataclass fields *)

ExcerptFields ==
    {"page_id", "ppa_span_start", "ppa_span_end", "ppa_span_text",
     "detection_methods", "notes", "excerpt_id"}
LabeledOnlyFields ==
    {"poem_id", "ref_corpus", "ref_span_start", "ref_span_end", "ref_span_text",
     "identification_methods"}

\* fields(cls)
fieldnames(cls) ==
    IF cls = "LabeledExcerpt" THEN ExcerptFields \cup LabeledOnlyFields ELSE ExcerptFields

\* fields with a default value (all of them default to None)
DefaultedFields == {"notes", "ref_span_start", "ref_span_end", "ref_span_text"}

\* fields accepted by the generated __init__ (excerpt_id has init=False)
InitFields(cls) == fieldnames(cls) \ {"excerpt_id"}
RequiredFields(cls) == InitFields(cls) \ DefaultedFields

\* field_types(cls), restricted to what from_dict asks of it
SetFields(cls) ==
    {"detection_methods"} \cup
        (IF cls = "LabeledExcerpt" THEN {"identification_methods"} ELSE {})
IntFields(cls) ==
    {"ppa_span_start", "ppa_span_end"} \cup
        (IF cls = "LabeledExcerpt" THEN {"ref_span_start", "ref_span_end"} ELSE {})
OptionalFields == DefaultedFields

\* variant: the prefix of one of the methods even when several are combined
ExcerptId_first_method(detection_methods, start, end) ==
    <<DETECTION_METHODS[CHOOSE detect_name \in detection_methods : TRUE], "@">>
        \o IntToStr(start) \o <<":">> \o IntToStr(end)

\* the id computed at the end of Excerpt.__post_init__
ExcerptId(detection_methods, start, end) ==
    LET detect_pfx ==
            IF Cardinality(detection_methods) = 1
            THEN DETECTION_METHODS[CHOOSE detect_name \in detection_methods : TRUE]
            ELSE "c"
    IN <<detect_pfx, "@">> \o IntToStr(start) \o <<":">> \o IntToStr(end)

\* the instance of class cls with fields f and the id derived from them
NewInstance(cls, f) ==
    [k \in fieldnames(cls) \cup {"cls"} |->
        IF k = "cls" THEN cls
        ELSE IF k = "excerpt_id"
        THEN ExcerptId(f.detection_methods, f.ppa_span_start, f.ppa_span_end)
        ELSE f[k]]

\* variant: an empty interval (end = start) is let through
Excerpt_post_init_lax_range(cls, f) ==
    IF f.ppa_span_end < f.ppa_span_start
    THEN Raise("ValueError", "PPA span's start index must be less than its end index",
               <<f.ppa_span_start, f.ppa_span_end>>)
    ELSE IF f.detection_methods = {}
    THEN Raise("ValueError", "Must specify at least one detection method", <<>>)
    ELSE IF f.detection_methods \ DOMAIN DETECTION_METHODS # {}
    THEN Raise("ValueError", "Unsupported detection method",
               f.detection_methods \ DOMAIN DETECTION_METHODS)
    ELSE Return(NewInstance(cls, f))

\* variant: only a single detection method is looked up in the table
Excerpt_post_init_single_only(cls, f) ==
    IF f.ppa_span_end <= f.ppa_span_start
    THEN Raise("ValueError", "PPA span's start index must be less than its end index",
               <<f.ppa_span_start, f.ppa_span_end>>)
    ELSE IF f.detection_methods = {}
    THEN Raise("ValueError", "Must specify at least one detection method", <<>>)
    ELSE IF Cardinality(f.detection_methods) = 1
            /\ f.detection_methods \ DOMAIN DETECTION_METHODS # {}
    THEN Raise("ValueError", "Unsupported detection method", f.detection_methods)
    ELSE Return(NewInstance(cls, f))

\* variant: the detection methods are checked before the page span
Excerpt_post_init_methods_first(cls, f) ==
    IF f.detection_methods = {}
    THEN Raise("ValueError", "Must specify at least one detection method", <<>>)
    ELSE LET unsupported_methods == f.detection_methods \ DOMAIN DETECTION_METHODS
         IN IF unsupported_methods # {}
            THEN Raise("ValueError", "Unsupported detection method", unsupported_methods)
            ELSE IF f.ppa_span_end <= f.ppa_span_start
            THEN Raise("ValueError",
                       "PPA span's start index must be less than its end index",
                       <<f.ppa_span_start, f.ppa_span_end>>)
            ELSE Return(NewInstance(cls, f))

\* Excerpt.__post_init__ on the fields f of a new instance of class cls
Excerpt_post_init(cls, f) ==
    IF f.ppa_span_end <= f.ppa_span_start
    THEN Raise("ValueError", "PPA span's start index must be less than its end index",
               <<f.ppa_span_start, f.ppa_span_end>>)
    ELSE IF f.detection_methods = {}
    THEN Raise("ValueError", "Must specify at least one detection method", <<>>)
    ELSE LET unsupported_methods == f.detection_methods \ DOMAIN DETECTION_METHODS
         IN IF unsupported_methods # {}
            THEN Raise("ValueError", "Unsupported detection method", unsupported_methods)
            ELSE Return(NewInstance(cls, f))

\* variant: the identification methods are not checked
LabeledExcerpt_post_init_unchecked_methods(cls, f) ==
    LET base == Excerpt_post_init(cls, f)
    IN IF base.err # NoError THEN base
       ELSE IF (f.ref_span_start = None) # (f.ref_span_end = None)
       THEN Raise("ValueError", "Reference span's start and end index must both be set",
                  <<>>)
       ELSE IF f.ref_span_end # None /\ f.ref_span_end[1] <= f.ref_span_start[1]
       THEN Raise("ValueError",
                  "Reference span's start index must be less than its end index",
                  <<f.ref_span_start[1], f.ref_span_end[1]>>)
       ELSE base

\* variant: a reference span with only one of its indices is let through
LabeledExcerpt_post_init_unchecked_span(cls, f) ==
    LET base == Excerpt_post_init(cls, f)
    IN IF base.err # NoError THEN base
       ELSE IF f.identification_methods = {}
       THEN Raise("ValueError", "Must specify at least one identification method", <<>>)
       ELSE IF f.ref_span_end # None /\ f.ref_span_start # None
               /\ f.ref_span_end[1] <= f.ref_span_start[1]
       THEN Raise("ValueError",
                  "Reference span's start index must be less than its end index",
                  <<f.ref_span_start[1], f.ref_span_end[1]>>)
       ELSE base

\* LabeledExcerpt.__post_init__
LabeledExcerpt_post_init(cls, f) ==
    LET base == Excerpt_post_init(cls, f)
    IN IF base.err # NoError THEN base
       ELSE IF f.identification_methods = {}
       THEN Raise("ValueError", "Must specify at least one identification method", <<>>)
       ELSE IF (f.ref_span_start = None) # (f.ref_span_end = None)
       THEN Raise("ValueError", "Reference span's start and end index must both be set",
                  <<>>)
       ELSE IF f.ref_span_end # None /\ f.ref_span_end[1] <= f.ref_span_start[1]
       THEN Raise("ValueError",
                  "Reference span's start index must be less than its end index",
                  <<f.ref_span_start[1], f.ref_span_end[1]>>)
       ELSE base

post_init(cls, f) ==
    IF cls = "LabeledExcerpt" THEN LabeledExcerpt_post_init(cls, f)
    ELSE Excerpt_post_init(cls, f)

\* cls(**kwargs): the generated keyword-only __init__, then __post_init__
New(cls, kwargs) ==
    IF ~(DOMAIN kwargs \subseteq InitFields(cls))
    THEN Raise("TypeError", "got an unexpected keyword argument",
               DOMAIN kwargs \ InitFields(cls))
    ELSE IF ~(RequiredFields(cls) \subseteq DOMAIN kwargs)
    THEN Raise("TypeError", "missing required keyword-only arguments",
               RequiredFields(cls) \ DOMAIN kwargs)
    ELSE post_init(cls, [k \in InitFields(cls) |->
                            IF k \in DOMAIN kwargs THEN kwargs[k] ELSE None])

\* variant: the copy is built as a plain Excerpt whatever the class of obj
replace_as_base(obj, changes) ==
    New("Excerpt", [k \in InitFields("Excerpt") |->
                       IF k \in DOMAIN changes THEN changes[k] ELSE obj[k]])

\* variant: the copy keeps the excerpt_id of the instance it is made from
replace_stale_id(obj, changes) ==
    LET r == New(obj.cls, [k \in InitFields(obj.cls) |->
                              IF k \in DOMAIN changes THEN changes[k] ELSE obj[k]])
    IN IF r.err # NoError THEN r
       ELSE [val |-> [r.val EXCEPT !.excerpt_id = obj.excerpt_id], err |-> NoError]

\* dataclasses.replace(self, **changes): a new instance of the class of self
\* built from the init fields of self with the changes applied
replace(obj, changes) ==
    New(obj.cls, [k \in InitFields(obj.cls) |->
                     IF k \in DOMAIN changes THEN changes[k] ELSE obj[k]])

-----------------------------------------------------------------------------
(* Realignment *)

\* variant: the offsets are corrected but the text is left as it was
correct_page_excerpt_stale_text(obj, page_text) ==
    {IF o.raised # ""
     THEN Raise(o.raised, AlignErrorMessage(o.raised), <<>>)
     ELSE replace(obj, [ppa_span_start |-> o.new_start, ppa_span_end |-> o.new_end])
     : o \in AlignOutcomes(page_text, obj.ppa_span_text)}

\* variant: the end offset is that of the last aligned character
correct_page_excerpt_inclusive_end(obj, page_text) ==
    {IF o.raised # ""
     THEN Raise(o.raised, AlignErrorMessage(o.raised), <<>>)
     ELSE replace(obj, [ppa_span_start |-> o.new_start,
                        ppa_span_end |-> o.new_end - 1,
                        ppa_span_text |-> Slice(page_text, o.new_start, o.new_end - 1)])
     : o \in AlignOutcomes(page_text, obj.ppa_span_text)}

\* variant: the excerpt text is the target and the page text the query
correct_page_excerpt_swapped(obj, page_text) ==
    {IF o.raised # ""
     THEN Raise(o.raised, AlignErrorMessage(o.raised), <<>>)
     ELSE replace(obj, [ppa_span_start |-> o.new_start,
                        ppa_span_end |-> o.new_end,
                        ppa_span_text |-> Slice(page_text, o.new_start, o.new_end)])
     : o \in AlignOutcomes(obj.ppa_span_text, page_text)}

\* Excerpt.correct_page_excerpt(page_text): the results the optimal
\* alignments of page_text and ppa_span_text allow
correct_page_excerpt(obj, page_text) ==
    {IF o.raised # ""
     THEN Raise(o.raised, AlignErrorMessage(o.raised), <<>>)
     ELSE replace(obj, [ppa_span_start |-> o.new_start,
                        ppa_span_end |-> o.new_end,
                        ppa_span_text |-> Slice(page_text, o.new_start, o.new_end)])
     : o \in AlignOutcomes(page_text, obj.ppa_span_text)}

-----------------------------------------------------------------------------
(* Decoding: input_to_set and from_dict.  A value found in an input dict   *)
(* carries its Python type: [t |-> type name, v |-> value].                *)

IntV(n) == [t |-> "int", v |-> n]
StrV(s) == [t |-> "str", v |-> s]
ListV(l) == [t |-> "list", v |-> l]
SetV(S) == [t |-> "set", v |-> S]
NoneV == [t |-> "NoneType", v |-> <<>>]

Range(seq) == {seq[i] : i \in 1..Len(seq)}

\* position of the first occurrence of sep in s, 0 if there is none
Find(s, sep) ==
    LET hits == {i \in 1..(Len(s) - Len(sep) + 1) : SubSeq(s, i, i + Len(sep) - 1) = sep}
    IN IF hits = {} THEN 0 ELSE CHOOSE i \in hits : \A k \in hits : i <= k

\* s.split(sep)
RECURSIVE Split(_, _)
Split(s, sep) ==
    LET i == Find(s, sep)
    IN IF i = 0 THEN <<s>>
       ELSE <<SubSeq(s, 1, i - 1)>> \o Split(SubSeq(s, i + Len(sep), Len(s)), sep)

DigitValue(c) ==
    CASE c = "0" -> 0 [] c = "1" -> 1 [] c = "2" -> 2 [] c = "3" -> 3 [] c = "4" -> 4
      [] c = "5" -> 5 [] c = "6" -> 6 [] c = "7" -> 7 [] c = "8" -> 8 [] c = "9" -> 9
      [] OTHER -> -1

RECURSIVE DigitsValue(_)
DigitsValue(s) ==
    IF Len(s) = 0 THEN 0
    ELSE 10 * DigitsValue(SubSeq(s, 1, Len(s) - 1)) + DigitValue(s[Len(s)])

IsSpace(c) == c \in {" ", "\t", "\n"}

\* s.lstrip(), s.rstrip() and s.strip()
RECURSIVE LStrip(_)
LStrip(s) == IF Len(s) > 0 /\ IsSpace(s[1]) THEN LStrip(Tail(s)) ELSE s
RECURSIVE RStrip(_)
RStrip(s) ==
    IF Len(s) > 0 /\ IsSpace(s[Len(s)]) THEN RStrip(SubSeq(s, 1, Len(s) - 1)) ELSE s
Strip(s) == LStrip(RStrip(s))

\* int(s) for a str s: surrounding whitespace, an optional sign, decimal digits
Unsigned(s) == IF Len(s) > 0 /\ s[1] \in {"-", "+"} THEN Tail(s) ELSE s
IsIntLiteral(s) ==
    LET digits == Unsigned(Strip(s))
    IN Len(digits) > 0 /\ \A i \in 1..Len(digits) : DigitValue(digits[i]) >= 0
StrToInt(s) ==
    LET t == Strip(s)
    IN IF t[1] = "-" THEN -DigitsValue(Unsigned(t)) ELSE DigitsValue(Unsigned(t))

\* input_to_set(input_val)
input_to_set(input_val) ==
    CASE input_val.t = "list" -> Return(Range(input_val.v))
      [] input_val.t = "str" -> Return(Range(Split(input_val.v, MULTIVAL_DELIMITER)))
      [] input_val.t = "set" -> Return(input_val.v)
      [] OTHER -> Raise("ValueError", "Unexpected value type", <<input_val.t>>)

\* the dict args without the key k
DictWithout(args, k) == [x \in DOMAIN args \ {k} |-> args[x]]

\* the loop of from_dict over the set fields, in field order
RECURSIVE ConvertSetFields(_, _)
ConvertSetFields(input_args, set_fields) ==
    IF set_fields = <<>> THEN [val |-> input_args, err |-> NoError]
    ELSE LET field_name == Head(set_fields)
         IN IF field_name \notin DOMAIN input_args
            THEN Raise("KeyError", "missing key", <<field_name>>)
            ELSE LET converted == input_to_set(input_args[field_name])
                 IN IF converted.err # NoError
                    THEN Raise("ValueError", "Unexpected value type",
                               converted.err.vals \o <<field_name>>)
                    ELSE ConvertSetFields(
                             [input_args EXCEPT ![field_name] = SetV(converted.val)],
                             Tail(set_fields))

\* variant: an empty string under an int field is read as 0
RECURSIVE ConvertIntFields_blank_as_zero(_, _)
ConvertIntFields_blank_as_zero(input_args, int_fields) ==
    IF int_fields = <<>> THEN [val |-> input_args, err |-> NoError]
    ELSE LET field_name == Head(int_fields)
             present == field_name \in DOMAIN input_args
         IN IF present /\ input_args[field_name].t = "str"
            THEN LET input_val == input_args[field_name].v
                 IN IF input_val = <<>>
                    THEN ConvertIntFields_blank_as_zero(
                             [input_args EXCEPT ![field_name] = IntV(0)],
                             Tail(int_fields))
                    ELSE IF ~IsIntLiteral(input_val)
                    THEN Raise("ValueError", "invalid literal for int()", <<field_name>>)
                    ELSE ConvertIntFields_blank_as_zero(
                             [input_args EXCEPT ![field_name] = IntV(StrToInt(input_val))],
                             Tail(int_fields))
            ELSE ConvertIntFields_blank_as_zero(input_args, Tail(int_fields))

\* the loop of from_dict over the int fields, in field order
RECURSIVE ConvertIntFields(_, _)
ConvertIntFields(input_args, int_fields) ==
    IF int_fields = <<>> THEN [val |-> input_args, err |-> NoError]
    ELSE LET field_name == Head(int_fields)
             present == field_name \in DOMAIN input_args
         IN IF present /\ input_args[field_name].t = "str"
            THEN LET input_val == input_args[field_name].v
                 IN IF input_val = <<>>
                    THEN ConvertIntFields(DictWithout(input_args, field_name),
                                          Tail(int_fields))
                    ELSE IF ~IsIntLiteral(input_val)
                    THEN Raise("ValueError", "invalid literal for int()", <<field_name>>)
                    ELSE ConvertIntFields(
                             [input_args EXCEPT ![field_name] = IntV(StrToInt(input_val))],
                             Tail(int_fields))
            ELSE ConvertIntFields(input_args, Tail(int_fields))

SetFieldOrder(cls) ==
    IF cls = "LabeledExcerpt" THEN <<"detection_methods", "identification_methods">>
    ELSE <<"detection_methods">>
IntFieldOrder(cls) ==
    IF cls = "LabeledExcerpt"
    THEN <<"ppa_span_start", "ppa_span_end", "ref_span_start", "ref_span_end">>
    ELSE <<"ppa_span_start", "ppa_span_end">>

\* the keyword argument the decoded dict value v passes for field k
AsKeyword(k, v) ==
    IF k \in OptionalFields
    THEN (IF v.t = "NoneType" THEN None ELSE Some(v.v))
    ELSE v.v

\* variant: an excerpt_id in the input is passed on to the constructor
from_dict_keeping_id(cls, d) ==
    LET sets == ConvertSetFields(d, SetFieldOrder(cls))
    IN IF sets.err # NoError THEN sets
       ELSE LET ints == ConvertIntFields(sets.val, IntFieldOrder(cls))
            IN IF ints.err # NoError THEN ints
               ELSE New(cls, [k \in DOMAIN ints.val |-> AsKeyword(k, ints.val[k])])

\* cls.from_dict(d)
from_dict(cls, d) ==
    LET input_args == DictWithout(d, "excerpt_id")
        sets == ConvertSetFields(input_args, SetFieldOrder(cls))
    IN IF sets.err # NoError THEN sets
       ELSE LET ints == ConvertIntFields(sets.val, IntFieldOrder(cls))
            IN IF ints.err # NoError THEN ints
               ELSE New(cls, [k \in DOMAIN ints.val |-> AsKeyword(k, ints.val[k])])

-----------------------------------------------------------------------------
(* Inputs offered to the library *)

Offsets == -1..MaxOffset
Alphabet == {"a", " "}

ScenarioPage ==
    <<"T", "h", "e", " ", "q", "u", "i", "c", "k", " ", "b", "r", "o", "w", "n", " ",
      "f", "o", "x">>
ScenarioText == <<"q", "u", "i", "c", "k", " ", " ", "b", "r", "o", "w", "n">>

\* a text with whitespace on both sides
PaddedText == <<" ", "a", " ">>
Texts == StringsUpTo(Alphabet, MaxTextLen) \cup {ScenarioText, PaddedText}
Pages == StringsUpTo(Alphabet, MaxPageLen) \cup {ScenarioPage}
PageIds == {<<"p", "1">>}
Labels == {<<"x">>, <<"y">>}
NotesValues == {None, Some(<<"n">>)}

DetectionSets ==
    {{}, {adjudication}, {manual}, {passim}, {xml}, {manual, passim},
     {adjudication, manual, xml}, {bogus}, {manual, bogus}, {bogus, refmatcha}}
IdentificationSets == {{}, {refmatcha}, {passim, refmatcha}, {a_and_b}}
RefOffsets == {None, Some(0), Some(1)}
RefTexts == {None, Some(<<"r">>)}

\* keyword arguments for Excerpt(...): every field varied around a short
\* text, and every text with a few values of the other fields
ExcerptArgs ==
    [page_id : PageIds, ppa_span_start : Offsets, ppa_span_end : Offsets,
     ppa_span_text : {<<"a">>, <<" ", "a">>}, detection_methods : DetectionSets,
     notes : NotesValues]
    \cup [page_id : PageIds, ppa_span_start : {0}, ppa_span_end : {1, 12},
          ppa_span_text : Texts, detection_methods : {{passim}, {manual, xml}},
          notes : {None}]

\* keyword arguments for LabeledExcerpt(...), likewise
LabeledExcerptArgs ==
    [page_id : PageIds, ppa_span_start : {0}, ppa_span_end : {0, 1},
     ppa_span_text : {<<"a">>}, detection_methods : {{}, {passim}, {bogus}},
     poem_id : {<<"Z">>}, ref_corpus : {<<"c">>}, ref_span_start : RefOffsets,
     ref_span_end : RefOffsets, ref_span_text : RefTexts,
     identification_methods : IdentificationSets]
    \cup [page_id : PageIds, ppa_span_start : {0}, ppa_span_end : {1, 12},
          ppa_span_text : Texts, detection_methods : {{passim}, {manual, passim}},
          notes : {Some(<<"n">>)}, poem_id : {<<"Z">>}, ref_corpus : {<<"c">>},
          ref_span_start : {Some(0)}, ref_span_end : {Some(1)},
          ref_span_text : {Some(<<"r">>)}, identification_methods : {{refmatcha}}]

Args(cls) == IF cls = "LabeledExcerpt" THEN LabeledExcerptArgs ELSE ExcerptArgs

\* the members of a set in some order
RECURSIVE SetToSeq(_)
SetToSeq(S) ==
    IF S = {} THEN <<>>
    ELSE LET x == CHOOSE x \in S : TRUE IN <<x>> \o SetToSeq(S \ {x})

\* sep.join(parts)
RECURSIVE Join(_, _)
Join(parts, sep) ==
    IF Len(parts) = 0 THEN <<>>
    ELSE IF Len(parts) = 1 THEN parts[1]
    ELSE parts[1] \o sep \o Join(Tail(parts), sep)

SetEncodings == {"list", "str", "set", "NoneType"}
IntEncodings == {"int", "str", "blank"}

\* an input dict for from_dict carrying the keyword arguments kw: a set as a
\* list, a delimited string, a set or (unsupported) None; an int as an int or
\* a string; an unset field left out or, for an int read from a table, blank
EncodedValue(k, v, setEnc, intEnc) ==
    IF k \in {"detection_methods", "identification_methods"}
    THEN CASE setEnc = "list" -> ListV(SetToSeq(v))
           [] setEnc = "str" -> StrV(Join(SetToSeq(v), MULTIVAL_DELIMITER))
           [] setEnc = "set" -> SetV(v)
           [] OTHER -> NoneV
    ELSE IF k \in {"ppa_span_start", "ppa_span_end"}
    THEN (IF intEnc = "int" THEN IntV(v) ELSE StrV(IntToStr(v)))
    ELSE IF k \in {"ref_span_start", "ref_span_end"}
    THEN (IF v = None THEN StrV(<<>>)
          ELSE IF intEnc = "int" THEN IntV(v[1]) ELSE StrV(IntToStr(v[1])))
    ELSE IF k \in OptionalFields THEN StrV(v[1])
    ELSE StrV(v)

EncodedKeys(kw, intEnc) ==
    {k \in DOMAIN kw :
        \/ k \notin OptionalFields
        \/ kw[k] # None
        \/ intEnc = "blank" /\ k \in {"ref_span_start", "ref_span_end"}}

EncodeArgs(kw, setEnc, intEnc) ==
    [k \in EncodedKeys(kw, intEnc) |-> EncodedValue(k, kw[k], setEnc, intEnc)]

\* keyword arguments from which input dicts are made
DictArgs(cls) ==
    IF cls = "LabeledExcerpt"
    THEN [page_id : PageIds, ppa_span_start : {0}, ppa_span_end : {1},
          ppa_span_text : {<<"a">>}, detection_methods : {{passim}},
          notes : {None}, poem_id : {<<"Z">>}, ref_corpus : {<<"c">>},
          ref_span_start : RefOffsets, ref_span_end : RefOffsets,
          ref_span_text : RefTexts, identification_methods : IdentificationSets]
    ELSE [page_id : PageIds, ppa_span_start : {0}, ppa_span_end : {0, 1, 12},
          ppa_span_text : {<<"a">>}, detection_methods : DetectionSets,
          notes : NotesValues \cup {Some(<<"7">>), Some(<<>>)}]

\* values an input dict may carry under the key excerpt_id
ExcerptIdValues ==
    <<StrV(<<"m", "@", "0", ":", "1">>), StrV(<<"z">>), IntV(7), NoneV>>

\* d with the key k set to v
DictWith(d, k, v) == [x \in DOMAIN d \cup {k} |-> IF x = k THEN v ELSE d[x]]

\* how an input dict departs from the encoded keyword arguments: not at all,
\* by carrying an excerpt_id (the i-th value above), by lacking a key, or by
\* an empty string under ppa_span_start
DictVariants ==
    {<<"plain", 0>>, <<"without", 1>>, <<"without", 2>>, <<"blank", 1>>}
        \cup {<<"excerpt_id", i>> : i \in 1..Len(ExcerptIdValues)}

VariantOf(d, variant) ==
    CASE variant[1] = "excerpt_id" ->
             DictWith(d, "excerpt_id", ExcerptIdValues[variant[2]])
      [] variant[1] = "blank" -> DictWith(d, "ppa_span_start", StrV(<<>>))
      [] variant[1] = "without" ->
             DictWithout(d, <<"detection_methods", "page_id">>[variant[2]])
      [] OTHER -> d

-----------------------------------------------------------------------------
(* Encoding: asdict, to_dict and to_csv.  A Python set has no order of its *)
(* own: the order in which its members are iterated is an input of the     *)
(* call, iter[field] being the members of the field in iteration order.    *)

\* the sequences that list every member of S once
Orderings(S) == {seq \in [1..Cardinality(S) -> S] : Range(seq) = S}

\* the iteration orders of the set fields of obj
IterationOrders(obj) ==
    {[k \in SetFields(obj.cls) |->
         IF k = "detection_methods" THEN od ELSE oi] :
     od \in Orderings(obj.detection_methods),
     oi \in (IF obj.cls = "LabeledExcerpt"
             THEN Orderings(obj.identification_methods) ELSE {<<>>})}

\* dataclasses.asdict(obj): every field, excerpt_id included
asdict(obj) == [k \in fieldnames(obj.cls) |-> obj[k]]

\* variant: excerpt_id is left out with the unset fields
NotNoneKeys_without_id(fields) ==
    {key \in DOMAIN fields \ {"excerpt_id"} :
        ~(key \in OptionalFields /\ fields[key] = None)}

\* the fields of asdict whose value is not None
NotNoneKeys(fields) ==
    {key \in DOMAIN fields : ~(key \in OptionalFields /\ fields[key] = None)}

\* a field value that is not a set, as the typed value put in a dict
TypedValue(key, value) ==
    LET v == IF key \in OptionalFields THEN value[1] ELSE value
    IN IF key \in IntFields("LabeledExcerpt") THEN IntV(v) ELSE StrV(v)

Dict(d) == [cls |-> "dict", d |-> d]

\* variant: only the first member of a set is put in the list
to_dict_first_member(obj, iter) ==
    LET fields == asdict(obj)
    IN Return(Dict([key \in NotNoneKeys(fields) |->
                       IF key \in SetFields(obj.cls)
                       THEN ListV(SubSeq(iter[key], 1, 1))
                       ELSE TypedValue(key, fields[key])]))

\* obj.to_dict()
to_dict(obj, iter) ==
    LET fields == asdict(obj)
    IN Return(Dict([key \in NotNoneKeys(fields) |->
                       IF key \in SetFields(obj.cls)
                       THEN ListV(iter[key])
                       ELSE TypedValue(key, fields[key])]))

\* the characters of the model in code point order
Ascii ==
    <<"\t", "\n", " ", "+", "-", "0", "1", "2", "3", "4", "5", "6", "7", "8", "9",
      ":", ";", "@", "Z", "a", "b", "c", "d", "e", "f", "g", "h", "i", "j", "k",
      "l", "m", "n", "o", "p", "q", "r", "s", "t", "u", "v", "w", "x", "y", "z">>
Ord(c) == CHOOSE i \in 1..Len(Ascii) : Ascii[i] = c

\* a < b on Python strings: by code point, a proper prefix first
RECURSIVE StrLess(_, _)
StrLess(a, b) ==
    IF a = <<>> THEN b # <<>>
    ELSE IF b = <<>> THEN FALSE
    ELSE IF a[1] = b[1] THEN StrLess(Tail(a), Tail(b))
    ELSE Ord(a[1]) < Ord(b[1])

RECURSIVE Insert(_, _)
Insert(x, seq) ==
    IF seq = <<>> THEN <<x>>
    ELSE IF StrLess(x, seq[1]) THEN <<x>> \o seq
    ELSE <<seq[1]>> \o Insert(x, Tail(seq))

\* sorted(iterable) of strings
RECURSIVE sorted(_)
sorted(seq) == IF seq = <<>> THEN <<>> ELSE Insert(Head(seq), sorted(Tail(seq)))

\* variant: the members are joined in iteration order
to_csv_unsorted(obj, iter) ==
    LET fields == asdict(obj)
    IN Return(Dict([key \in NotNoneKeys(fields) |->
                       IF key \in SetFields(obj.cls)
                       THEN StrV(Join(iter[key], MULTIVAL_DELIMITER))
                       ELSE TypedValue(key, fields[key])]))

\* obj.to_csv()
to_csv(obj, iter) ==
    LET fields == asdict(obj)
    IN Return(Dict([key \in NotNoneKeys(fields) |->
                       IF key \in SetFields(obj.cls)
                       THEN StrV(Join(sorted(iter[key]), MULTIVAL_DELIMITER))
                       ELSE TypedValue(key, fields[key])]))

-----------------------------------------------------------------------------
(* strip_whitespace *)

\* variant: the offsets are left as they were
strip_whitespace_stale_offsets(obj) ==
    replace(obj, [ppa_span_text |-> Strip(obj.ppa_span_text)])

\* obj.strip_whitespace()
strip_whitespace(obj) ==
    LET ldiff == Len(obj.ppa_span_text) - Len(LStrip(obj.ppa_span_text))
        rdiff == Len(obj.ppa_span_text) - Len(RStrip(obj.ppa_span_text))
    IN replace(obj, [ppa_span_start |-> obj.ppa_span_start + ldiff,
                     ppa_span_end |-> obj.ppa_span_end - rdiff,
                     ppa_span_text |-> Strip(obj.ppa_span_text)])

-----------------------------------------------------------------------------
(* LabeledExcerpt.from_excerpt *)

\* dict.update: the entries of d with those of other added or replaced
Update(d, other) ==
    [k \in DOMAIN d \cup DOMAIN other |-> IF k \in DOMAIN other THEN other[k] ELSE d[k]]

\* variant: on a conflict the field of the excerpt wins over the keyword
from_excerpt_excerpt_wins(cls, ex, kwargs) ==
    New(cls, DictWithout(Update(kwargs, asdict(ex)), "excerpt_id"))

\* cls.from_excerpt(ex, **kwargs)
from_excerpt(cls, ex, kwargs) ==
    LET excerpt_info == Update(asdict(ex), kwargs)
    IN New(cls, DictWithout(excerpt_info, "excerpt_id"))

\* the keyword arguments offered to from_excerpt: label fields, with and
\* without a reference span, with fields of the excerpt overridden, with an
\* excerpt_id, and with a required field missing
LabelArgs ==
    [poem_id : {<<"Z">>}, ref_corpus : {<<"c">>},
     identification_methods : {{}, {refmatcha}}]
ExtraArgs ==
    LabelArgs
    \cup {Update(l, [ref_span_start |-> Some(0), ref_span_end |-> e,
                     ref_span_text |-> Some(<<"r">>)]) :
              l \in LabelArgs, e \in {None, Some(1)}}
    \cup {Update(l, [ppa_span_start |-> n]) : l \in LabelArgs, n \in {0, 1}}
    \cup {Update(l, [detection_methods |-> m]) :
              l \in LabelArgs, m \in {{xml}, {manual, passim}, {bogus}}}
    \cup {Update(l, [notes |-> Some(<<"m">>)]) : l \in LabelArgs}
    \cup {Update(l, [excerpt_id |-> <<"z">>]) : l \in LabelArgs}
    \cup {[poem_id |-> <<"Z">>], [ref_corpus |-> <<"c">>, identification_methods |-> {passim}]}

-----------------------------------------------------------------------------
(* Assignment to a field.  Both classes are dataclasses declared           *)
(* frozen=True, whose generated __setattr__ raises; the outcome of an      *)
(* assignment is the object as it is afterwards and the error raised.      *)

\* variant: the dataclass is not frozen
setattr_unfrozen(obj, name, value) ==
    [obj |-> [obj EXCEPT ![name] = value], err |-> NoError]

\* obj.name = value
setattr(obj, name, value) ==
    [obj |-> obj,
     err |-> [exc |-> "FrozenInstanceError", msg |-> "cannot assign to field",
              vals |-> <<name>>]]

\* a value of the type of field name that no excerpt of the model holds
AssignedValue(name) ==
    IF name \in SetFields("LabeledExcerpt") THEN {manual, xml, passim}
    ELSE IF name \in {"ppa_span_start", "ppa_span_end"} THEN 5
    ELSE IF name \in {"ref_span_start", "ref_span_end"} THEN Some(5)
    ELSE IF name \in OptionalFields THEN Some(<<"z">>)
    ELSE <<"z">>

-----------------------------------------------------------------------------
(* The passim pipeline: get_passim_results.py builds page-level records    *)
(* from passim alignment records, get_passim_excerpts.py reads page-level  *)
(* records and yields excerpts.  A JSON object is a function from its keys *)
(* to its values, a JSON lines file the sequence of its objects.           *)

\* re.sub(r"\s", " ", s)
BlankWhitespace(s) == [i \in DOMAIN s |-> IF IsSpace(s[i]) THEN " " ELSE s[i]]

\* get_passim_span(alignment_record)
get_passim_span(alignment_record) ==
    [ref_id |-> alignment_record.id,
     ref_corpus |-> alignment_record.corpus,
     ref_start |-> alignment_record.begin,
     ref_end |-> alignment_record.end,
     page_id |-> alignment_record.id2,
     page_start |-> alignment_record.begin2,
     page_end |-> alignment_record.end2,
     matches |-> alignment_record.matches,
     aligned_ref_excerpt |-> BlankWhitespace(alignment_record.s1),
     aligned_ppa_excerpt |-> BlankWhitespace(alignment_record.s2)]

\* the first loop of build_passim_page_results: one empty record for each
\* page of the corpus, in corpus order (a repeated id keeps its first place)
RECURSIVE PageOrder(_)
PageOrder(ppa_corpus) ==
    IF ppa_corpus = <<>> THEN <<>>
    ELSE LET rest == PageOrder(SubSeq(ppa_corpus, 1, Len(ppa_corpus) - 1))
             page_id == ppa_corpus[Len(ppa_corpus)].id
         IN IF page_id \in Range(rest) THEN rest ELSE Append(rest, page_id)
InitialPageResults(ppa_corpus) ==
    [page_id \in {ppa_corpus[i].id : i \in DOMAIN ppa_corpus} |->
        [page_id |-> page_id, n_spans |-> 0, poem_spans |-> <<>>]]

\* variant: the span is stored but n_spans is not counted up
RECURSIVE AddMatches_uncounted(_, _)
AddMatches_uncounted(page_results, matches) ==
    IF matches = <<>> THEN Return(page_results)
    ELSE LET page_id == Head(matches).page_id
             match == DictWithout(Head(matches), "page_id")
         IN IF page_id \notin DOMAIN page_results
            THEN Raise("KeyError", "page_id", <<page_id>>)
            ELSE AddMatches_uncounted(
                     [page_results EXCEPT ![page_id].poem_spans = Append(@, match)],
                     Tail(matches))

\* the second loop of build_passim_page_results: each match is appended to
\* the record of its page and counted; a page that is not in the corpus
\* raises KeyError
RECURSIVE AddMatches(_, _)
AddMatches(page_results, matches) ==
    IF matches = <<>> THEN Return(page_results)
    ELSE LET page_id == Head(matches).page_id
             match == DictWithout(Head(matches), "page_id")
         IN IF page_id \notin DOMAIN page_results
            THEN Raise("KeyError", "page_id", <<page_id>>)
            ELSE AddMatches([page_results EXCEPT
                                ![page_id].poem_spans = Append(@, match),
                                ![page_id].n_spans = @ + 1],
                            Tail(matches))

\* the first loop of add_excerpts: the spans of the page of each corpus
\* record get ppa_excerpt, the slice of its text
RECURSIVE AddPpaExcerpts(_, _)
AddPpaExcerpts(page_results, ppa_corpus) ==
    IF ppa_corpus = <<>> THEN page_results
    ELSE LET ppa_record == Head(ppa_corpus)
             page_id == ppa_record.id
             poem_spans == page_results[page_id].poem_spans
         IN AddPpaExcerpts(
                [page_results EXCEPT ![page_id].poem_spans =
                    [i \in DOMAIN poem_spans |->
                        DictWith(poem_spans[i], "ppa_excerpt",
                                 Slice(ppa_record.text, poem_spans[i].page_start,
                                       poem_spans[i].page_end))]],
                Tail(ppa_corpus))

\* the second loop of add_excerpts: the spans that refer to each reference
\* record get ref_excerpt, the slice of its text
RECURSIVE AddRefExcerpts(_, _)
AddRefExcerpts(page_results, ref_records) ==
    IF ref_records = <<>> THEN page_results
    ELSE LET ref_record == Head(ref_records)
         IN AddRefExcerpts(
                [page_id \in DOMAIN page_results |->
                    [page_results[page_id] EXCEPT !.poem_spans =
                        [i \in DOMAIN @ |->
                            IF @[i].ref_corpus = ref_record.corpus
                               /\ @[i].ref_id = ref_record.id
                            THEN DictWith(@[i], "ref_excerpt",
                                          Slice(ref_record.text, @[i].ref_start,
                                                @[i].ref_end))
                            ELSE @[i]]]],
                Tail(ref_records))

\* add_excerpts(page_results, ppa_corpus, ref_corpora), the reference
\* corpora read one after the other
add_excerpts(page_results, ppa_corpus, ref_records) ==
    AddRefExcerpts(AddPpaExcerpts(page_results, ppa_corpus), ref_records)

\* the page-level records in the order of the dict
PageResults(page_results, order) ==
    [cls |-> "page_results",
     records |-> [i \in DOMAIN order |-> page_results[order[i]]]]

\* build_passim_page_results(ppa_corpus, ref_corpora, passim_dir), the
\* alignment records of passim_dir given in the order they are read
build_passim_page_results(ppa_corpus, ref_records, alignment_records) ==
    LET matches == [i \in DOMAIN alignment_records |->
                       get_passim_span(alignment_records[i])]
        added == AddMatches(InitialPageResults(ppa_corpus), matches)
    IN IF added.err # NoError THEN added
       ELSE Return(PageResults(add_excerpts(added.val, ppa_corpus, ref_records),
                               PageOrder(ppa_corpus)))

\* get_page_texts(page_ids, text_corpus): the text of each page of the corpus
\* whose id is asked for, the last record of an id winning
get_page_texts(page_ids, text_corpus) ==
    [page_id \in {text_corpus[i].id : i \in DOMAIN text_corpus} \cap page_ids |->
        text_corpus[CHOOSE i \in DOMAIN text_corpus :
                        /\ text_corpus[i].id = page_id
                        /\ \A j \in DOMAIN text_corpus :
                               j > i => text_corpus[j].id # page_id].text]

\* the keys of a poem span that get_passim_excerpts reads, in the order of
\* the keyword arguments
SpanKeysRead ==
    <<"page_start", "page_end", "page_excerpt", "ref_id", "ref_corpus",
      "ref_start", "ref_end", "ref_excerpt">>

\* LabeledExcerpt(...) as get_passim_excerpts calls it for one poem span; a
\* key the span lacks raises KeyError
PassimExcerpt(page_id, poem_span) ==
    LET missing == {i \in DOMAIN SpanKeysRead : SpanKeysRead[i] \notin DOMAIN poem_span}
    IN IF missing # {}
       THEN Raise("KeyError", SpanKeysRead[CHOOSE i \in missing :
                                              \A j \in missing : i <= j], <<>>)
       ELSE New("LabeledExcerpt",
                [page_id |-> page_id,
                 ppa_span_start |-> poem_span.page_start,
                 ppa_span_end |-> poem_span.page_end,
                 ppa_span_text |-> poem_span.page_excerpt,
                 detection_methods |-> {passim},
                 poem_id |-> poem_span.ref_id,
                 ref_corpus |-> poem_span.ref_corpus,
                 ref_span_start |-> Some(poem_span.ref_start),
                 ref_span_end |-> Some(poem_span.ref_end),
                 ref_span_text |-> Some(poem_span.ref_excerpt),
                 identification_methods |-> {passim}])

\* variant: the excerpt is yielded as it was built, never corrected
YieldedFor_uncorrected(page_id, poem_span, ppa_text_corpus, ppa_page_texts) ==
    {PassimExcerpt(page_id, poem_span)}

\* the body of the inner loop of get_passim_excerpts: what is yielded for
\* one poem span, or the exception that ends the generator
YieldedFor(page_id, poem_span, ppa_text_corpus, ppa_page_texts) ==
    LET excerpt == PassimExcerpt(page_id, poem_span)
    IN IF excerpt.err # NoError THEN {excerpt}
       ELSE IF ppa_text_corpus # None /\ page_id \in DOMAIN ppa_page_texts
       THEN correct_page_excerpt(excerpt.val, ppa_page_texts[page_id])
       ELSE {excerpt}

\* the (page_id, poem span) pairs the loops of get_passim_excerpts visit:
\* the spans of every page with a non-zero n_spans, in file order
RECURSIVE SpansVisited(_)
SpansVisited(input_file) ==
    IF input_file = <<>> THEN <<>>
    ELSE LET page == Head(input_file)
         IN (IF page.n_spans = 0 THEN <<>>
             ELSE [i \in DOMAIN page.poem_spans |->
                      [page_id |-> page.page_id, poem_span |-> page.poem_spans[i]]])
            \o SpansVisited(Tail(input_file))

\* the runs of the generator over the pairs still to visit: the excerpts
\* yielded and the exception that ended it, if one did
RECURSIVE GeneratorRuns(_, _, _)
GeneratorRuns(visits, ppa_text_corpus, ppa_page_texts) ==
    IF visits = <<>> THEN {[yielded |-> <<>>, err |-> NoError]}
    ELSE UNION {IF o.err # NoError
                THEN {[yielded |-> <<>>, err |-> o.err]}
                ELSE {[yielded |-> <<o.val>> \o r.yielded, err |-> r.err] :
                         r \in GeneratorRuns(Tail(visits), ppa_text_corpus,
                                             ppa_page_texts)}
                : o \in YieldedFor(Head(visits).page_id, Head(visits).poem_span,
                                   ppa_text_corpus, ppa_page_texts)}

\* get_passim_excerpts(input_file, ppa_text_corpus) run to its end;
\* ppa_text_corpus is None or Some(the records of the text corpus)
get_passim_excerpts(input_file, ppa_text_corpus) ==
    LET relevant_ids == {input_file[i].page_id : i \in
                            {j \in DOMAIN input_file : input_file[j].n_spans # 0}}
        ppa_page_texts == IF ppa_text_corpus # None
                          THEN get_page_texts(relevant_ids, ppa_text_corpus[1])
                          ELSE <<>>
    IN GeneratorRuns(SpansVisited(input_file), ppa_text_corpus, ppa_page_texts)

-----------------------------------------------------------------------------
(* The calls.  A call that takes no receiver (a constructor, from_dict)   *)
(* does not depend on the calls made before it, so it is offered from the  *)
(* initial state only; this reaches the same states as offering it         *)
(* everywhere.                                                             *)

Init ==
    /\ self = NoValue
    /\ arg = <<>>
    /\ res = NoValue
    /\ err = NoError
    /\ op = "start"
    /\ calls = 0

IsExcerpt(v) == v.cls \in {"Excerpt", "LabeledExcerpt"}

\* Span(start, end, label)
CallSpan ==
    /\ op = "start"
    /\ \E start \in Offsets, end \in Offsets, label \in Labels :
           LET r == Span_init(start, end, label)
           IN /\ op' = "Span"
              /\ self' = NoValue
              /\ arg' = [start |-> start, end |-> end, label |-> label]
              /\ res' = r.val
              /\ err' = r.err
              /\ calls' = 1

\* Excerpt(**kwargs) and LabeledExcerpt(**kwargs)
CallNew ==
    /\ op = "start"
    /\ \E cls \in {"Excerpt", "LabeledExcerpt"} :
           \E kwargs \in Args(cls) :
               LET r == New(cls, kwargs)
               IN /\ op' = cls
                  /\ self' = NoValue
                  /\ arg' = kwargs
                  /\ res' = r.val
                  /\ err' = r.err
                  /\ calls' = 1

\* Excerpt.from_dict(d) and LabeledExcerpt.from_dict(d)
CallFromDict ==
    /\ op = "start"
    /\ \E cls \in {"Excerpt", "LabeledExcerpt"} :
           \E kw \in DictArgs(cls), setEnc \in SetEncodings, intEnc \in IntEncodings,
              variant \in DictVariants :
               LET d == VariantOf(EncodeArgs(kw, setEnc, intEnc), variant)
                   r == from_dict(cls, d)
               IN /\ op' = "from_dict"
                  /\ self' = NoValue
                  /\ arg' = [cls |-> cls, d |-> d]
                  /\ res' = r.val
                  /\ err' = r.err
                  /\ calls' = 1

\* res.correct_page_excerpt(page_text) on the excerpt last returned
CallCorrectPageExcerpt ==
    /\ calls < MaxCalls
    /\ IsExcerpt(res)
    /\ \E page_text \in Pages :
           \E r \in correct_page_excerpt(res, page_text) :
               /\ op' = "correct_page_excerpt"
               /\ self' = res
               /\ arg' = page_text
               /\ res' = r.val
               /\ err' = r.err
               /\ calls' = calls + 1

\* res.strip_whitespace() on the excerpt last returned
CallStripWhitespace ==
    /\ calls < MaxCalls
    /\ IsExcerpt(res)
    /\ LET r == strip_whitespace(res)
       IN /\ op' = "strip_whitespace"
          /\ self' = res
          /\ arg' = <<>>
          /\ res' = r.val
          /\ err' = r.err
          /\ calls' = calls + 1

\* LabeledExcerpt.from_excerpt(res, **kwargs) on the excerpt last returned
CallFromExcerpt ==
    /\ calls < MaxCalls
    /\ IsExcerpt(res)
    /\ \E kwargs \in ExtraArgs :
           LET r == from_excerpt("LabeledExcerpt", res, kwargs)
           IN /\ op' = "from_excerpt"
              /\ self' = res
              /\ arg' = kwargs
              /\ res' = r.val
              /\ err' = r.err
              /\ calls' = calls + 1

\* res.name = value on the excerpt last returned; self is the excerpt as
\* the assignment leaves it
CallSetAttr ==
    /\ calls < MaxCalls
    /\ IsExcerpt(res)
    /\ \E name \in fieldnames(res.cls) :
           LET r == setattr(res, name, AssignedValue(name))
           IN /\ op' = "setattr"
              /\ self' = r.obj
              /\ arg' = [name |-> name, value |-> AssignedValue(name)]
              /\ res' = NoValue
              /\ err' = r.err
              /\ calls' = calls + 1

\* res.to_dict() on the excerpt last returned
CallToDict ==
    /\ calls < MaxCalls
    /\ IsExcerpt(res)
    /\ \E iter \in IterationOrders(res) :
           LET r == to_dict(res, iter)
           IN /\ op' = "to_dict"
              /\ self' = res
              /\ arg' = iter
              /\ res' = r.val
              /\ err' = r.err
              /\ calls' = calls + 1

\* res.to_csv() on the excerpt last returned
CallToCsv ==
    /\ calls < MaxCalls
    /\ IsExcerpt(res)
    /\ \E iter \in IterationOrders(res) :
           LET r == to_csv(res, iter)
           IN /\ op' = "to_csv"
              /\ self' = res
              /\ arg' = iter
              /\ res' = r.val
              /\ err' = r.err
              /\ calls' = calls + 1

\* cls.from_dict(res) on the dict last returned by to_dict or to_csv; self
\* stays the excerpt the dict was made from
CallFromDictOfResult ==
    /\ calls <= MaxCalls
    /\ res.cls = "dict"
    /\ \E cls \in {"Excerpt", "LabeledExcerpt"} :
           LET r == from_dict(cls, res.d)
           IN /\ op' = "from_dict"
              /\ self' = self
              /\ arg' = [cls |-> cls, d |-> res.d]
              /\ res' = r.val
              /\ err' = r.err
              /\ calls' = calls + 1

\* the span at hand: the one last constructed, or the receiver of the
\* last call on a span.  A query on a span returns a number or a truth
\* value on which nothing can be called, so the queries are offered once
\* more after the last call that MaxCalls allows.
SpanAtHand == IF res.cls = "Span" THEN res ELSE self

\* the spans passed as the other span: every span that can be constructed
OtherSpans ==
    {r.val : r \in {c \in {Span_init(start, end, label) :
                               start \in Offsets, end \in Offsets, label \in Labels} :
                       c.err = NoError}}

\* span.has_overlap(other, ignore_label)
CallHasOverlap ==
    /\ calls <= MaxCalls
    /\ SpanAtHand.cls = "Span"
    /\ \E other \in OtherSpans, ignore_label \in BOOLEAN :
           LET r == Return(Bool(has_overlap(SpanAtHand, other, ignore_label)))
           IN /\ op' = "has_overlap"
              /\ self' = SpanAtHand
              /\ arg' = [other |-> other, ignore_label |-> ignore_label]
              /\ res' = r.val
              /\ err' = r.err
              /\ calls' = calls + 1

\* span.is_exact_match(other, ignore_label)
CallIsExactMatch ==
    /\ calls <= MaxCalls
    /\ SpanAtHand.cls = "Span"
    /\ \E other \in OtherSpans, ignore_label \in BOOLEAN :
           LET r == Return(Bool(is_exact_match(SpanAtHand, other, ignore_label)))
           IN /\ op' = "is_exact_match"
              /\ self' = SpanAtHand
              /\ arg' = [other |-> other, ignore_label |-> ignore_label]
              /\ res' = r.val
              /\ err' = r.err
              /\ calls' = calls + 1

\* span.overlap_length(other, ignore_label)
CallOverlapLength ==
    /\ calls <= MaxCalls
    /\ SpanAtHand.cls = "Span"
    /\ \E other \in OtherSpans, ignore_label \in BOOLEAN :
           LET r == Return(PyInt(overlap_length(SpanAtHand, other, ignore_label)))
           IN /\ op' = "overlap_length"
              /\ self' = SpanAtHand
              /\ arg' = [other |-> other, ignore_label |-> ignore_label]
              /\ res' = r.val
              /\ err' = r.err
              /\ calls' = calls + 1

\* span.overlap_factor(other, ignore_label)
CallOverlapFactor ==
    /\ calls <= MaxCalls
    /\ SpanAtHand.cls = "Span"
    /\ \E other \in OtherSpans, ignore_label \in BOOLEAN :
           LET r == overlap_factor(SpanAtHand, other, ignore_label)
           IN /\ op' = "overlap_factor"
              /\ self' = SpanAtHand
              /\ arg' = [other |-> other, ignore_label |-> ignore_label]
              /\ res' = r.val
              /\ err' = r.err
              /\ calls' = calls + 1

\* span.name = value; self is the span as the assignment leaves it
CallSpanSetAttr ==
    /\ calls < MaxCalls
    /\ SpanAtHand.cls = "Span"
    /\ \E name \in {"start", "end", "label"} :
           \E value \in (IF name = "label" THEN Labels ELSE Offsets) :
               LET r == Span_setattr(SpanAtHand, name, value)
               IN /\ op' = "Span.setattr"
                  /\ self' = r.obj
                  /\ arg' = [name |-> name, was |-> SpanAtHand]
                  /\ res' = NoValue
                  /\ err' = r.err
                  /\ calls' = calls + 1

\* page-level records as a results file holds them: a page with one span,
\* a page with two, a page without any
PassimPageIds == {<<"p", "1">>, <<"p", "2">>}
SpanA ==
    [ref_id |-> <<"Z">>, ref_corpus |-> <<"c">>, ref_start |-> 0, ref_end |-> 1,
     ref_excerpt |-> <<"r">>, page_start |-> 0, page_end |-> 1,
     page_excerpt |-> <<"a">>]
SpanB ==
    [ref_id |-> <<"Y">>, ref_corpus |-> <<"c">>, ref_start |-> 1, ref_end |-> 2,
     ref_excerpt |-> <<"s">>, page_start |-> 1, page_end |-> 3,
     page_excerpt |-> <<"a", " ">>]
InputPages ==
    {[page_id |-> <<"p", "1">>, n_spans |-> 1, poem_spans |-> <<SpanA>>],
     [page_id |-> <<"p", "2">>, n_spans |-> 2, poem_spans |-> <<SpanB, SpanA>>],
     [page_id |-> <<"p", "3">>, n_spans |-> 0, poem_spans |-> <<>>]}
SeqsUpTo2(S) == {<<>>} \cup {<<x>> : x \in S} \cup {<<x, y>> : x, y \in S}
InputFiles == SeqsUpTo2(InputPages)

\* text corpora: records of page id and text, and no corpus at all
CorpusTexts == {<<>>, <<" ">>, <<"a">>, <<" ", "a", " ">>}
TextCorpora ==
    {None} \cup {Some(c) : c \in SeqsUpTo2([id : PassimPageIds, text : CorpusTexts])}

\* the inputs of build_passim_page_results: a PPA corpus, the records of
\* the reference corpora, the alignment records passim wrote
PpaCorpora ==
    SeqsUpTo2({[id |-> <<"p", "1">>, text |-> <<"a", " ", "a">>],
               [id |-> <<"p", "2">>, text |-> <<" ", "a">>]})
RefZ == [corpus |-> <<"c">>, id |-> <<"Z">>, text |-> <<"r", "s">>]
RefY == [corpus |-> <<"c">>, id |-> <<"Y">>, text |-> <<"r">>]
RefCorpora == {<<>>, <<RefZ>>, <<RefZ, RefY>>}
AlignmentRecords ==
    [id : {<<"Z">>, <<"Y">>}, corpus : {<<"c">>}, begin : {0}, end : {1},
     id2 : PassimPageIds, begin2 : {0, 1}, end2 : {2}, matches : {1},
     s1 : {<<"r">>}, s2 : {<<"a", "\n">>}]
PassimOutputs == SeqsUpTo2(AlignmentRecords)

\* list(get_passim_excerpts(input_file, ppa_text_corpus)) on a results file
CallGetPassimExcerpts ==
    /\ op = "start"
    /\ \E input_file \in InputFiles, ppa_text_corpus \in TextCorpora :
           \E run \in get_passim_excerpts(input_file, ppa_text_corpus) :
               /\ op' = "get_passim_excerpts"
               /\ self' = NoValue
               /\ arg' = [input_file |-> input_file,
                          ppa_text_corpus |-> ppa_text_corpus]
               /\ res' = [cls |-> "generator", yielded |-> run.yielded]
               /\ err' = run.err
               /\ calls' = calls + 1

\* build_passim_page_results(ppa_corpus, ref_corpora, passim_dir)
CallBuildPassimPageResults ==
    /\ op = "start"
    /\ \E ppa_corpus \in PpaCorpora, ref_records \in RefCorpora,
          alignment_records \in PassimOutputs :
           LET r == build_passim_page_results(ppa_corpus, ref_records,
                                              alignment_records)
           IN /\ op' = "build_passim_page_results"
              /\ self' = NoValue
              /\ arg' = [ppa_corpus |-> ppa_corpus, ref_records |-> ref_records,
                         alignment_records |-> alignment_records]
              /\ res' = r.val
              /\ err' = r.err
              /\ calls' = calls + 1

\* write_passim_results writes the page records just built to a file, one
\* JSON object a line, and get_passim_excerpts reads the file, with the
\* PPA corpus the records were built from as the text corpus or with none;
\* built_from keeps the arguments the records were built from
CallGetPassimExcerptsOfResults ==
    /\ calls <= MaxCalls
    /\ res.cls = "page_results"
    /\ \E ppa_text_corpus \in {None, Some(arg.ppa_corpus)} :
           \E run \in get_passim_excerpts(res.records, ppa_text_corpus) :
               /\ op' = "get_passim_excerpts"
               /\ self' = res
               /\ arg' = [input_file |-> res.records,
                          ppa_text_corpus |-> ppa_text_corpus,
                          built_from |-> arg]
               /\ res' = [cls |-> "generator", yielded |-> run.yielded]
               /\ err' = run.err
               /\ calls' = calls + 1

Next ==
    \/ CallSpan
    \/ CallHasOverlap
    \/ CallIsExactMatch
    \/ CallOverlapLength
    \/ CallOverlapFactor
    \/ CallSpanSetAttr
    \/ CallNew
    \/ CallFromDict
    \/ CallCorrectPageExcerpt
    \/ CallStripWhitespace
    \/ CallFromExcerpt
    \/ CallSetAttr
    \/ CallToDict
    \/ CallToCsv
    \/ CallFromDictOfResult
    \/ CallGetPassimExcerpts
    \/ CallBuildPassimPageResults
    \/ CallGetPassimExcerptsOfResults

Spec == Init /\ [][Next]_vars

-----------------------------------------------------------------------------
(* Properties *)

Corrected == op = "correct_page_excerpt" /\ err = NoError
Constructed == op \in {"Excerpt", "LabeledExcerpt"}
Vocabulary == {adjudication, manual, passim, xml}

\* C1: whenever correct_page_excerpt returns, the returned ppa_span_text is
\* page_text[new_start:new_end] for the returned offsets, the offsets satisfy
\* 0 <= new_start < new_end <= len(page_text), and the text is not empty.
C1_RealignedTextIsPageSlice ==
    Corrected =>
        /\ 0 <= res.ppa_span_start
        /\ res.ppa_span_start < res.ppa_span_end
        /\ res.ppa_span_end <= Len(arg)
        /\ res.ppa_span_text = SubSeq(arg, res.ppa_span_start + 1, res.ppa_span_end)
        /\ Len(res.ppa_span_text) > 0

\* the realignment moved the excerpt and changed its text
C1_Witness ==
    /\ Corrected
    /\ res.ppa_span_start > 0
    /\ res.ppa_span_end < Len(arg)
    /\ res.ppa_span_text # self.ppa_span_text

\* C2: correct_page_excerpt never raises; for every valid excerpt and every
\* page_text it returns a valid Excerpt.  Stated here for the empty page_text
\* the claim names, where the outcome does not depend on which optimal
\* alignment is selected.
C2_NeverRaisesOnEmptyPage ==
    (op = "correct_page_excerpt" /\ arg = <<>>) => (err = NoError /\ IsExcerpt(res))

\* C3 as stated: if page_text equals ppa_span_text, the result has offsets
\* 0 and len(page_text) and the same text.
C3_IdentityAnyText ==
    (op = "correct_page_excerpt" /\ arg = self.ppa_span_text) =>
        /\ err = NoError
        /\ res.ppa_span_start = 0
        /\ res.ppa_span_end = Len(arg)
        /\ res.ppa_span_text = self.ppa_span_text

\* C3 (amended): if page_text is not empty and equals ppa_span_text, the
\* result has offsets 0 and len(page_text) and the same text.
C3_IdentityNonEmptyText ==
    (op = "correct_page_excerpt" /\ arg = self.ppa_span_text /\ Len(arg) > 0) =>
        /\ err = NoError
        /\ res.ppa_span_start = 0
        /\ res.ppa_span_end = Len(arg)
        /\ res.ppa_span_text = self.ppa_span_text

\* a text of two characters realigned against itself, from other offsets
C3_Witness ==
    /\ Corrected
    /\ arg = self.ppa_span_text
    /\ Len(arg) = 2
    /\ self.ppa_span_end # 2
    /\ res.ppa_span_end = 2

\* C4: "quick  brown" claimed at 0..12, realigned against "The quick brown
\* fox", comes back at 4..15 with the text "quick brown", whichever optimal
\* alignment is selected.
C4_Scenario ==
    (/\ op = "correct_page_excerpt"
     /\ arg = ScenarioPage
     /\ self.ppa_span_text = ScenarioText
     /\ self.ppa_span_start = 0
     /\ self.ppa_span_end = 12) =>
        /\ err = NoError
        /\ res.ppa_span_start = 4
        /\ res.ppa_span_end = 15
        /\ res.ppa_span_text = <<"q", "u", "i", "c", "k", " ", "b", "r", "o", "w", "n">>

\* the scenario has been run
C4_Witness ==
    /\ Corrected
    /\ arg = ScenarioPage
    /\ self.ppa_span_text = ScenarioText
    /\ self.ppa_span_start = 0
    /\ self.ppa_span_end = 12
    /\ res.ppa_span_start = 4

\* C5: correct_page_excerpt returns an instance of the class of its receiver
\* and changes only ppa_span_start, ppa_span_end, ppa_span_text and
\* excerpt_id; every other field is that of the receiver.
C5_RealignmentFrame ==
    Corrected =>
        /\ res.cls = self.cls
        /\ DOMAIN res = DOMAIN self
        /\ \A k \in DOMAIN self \ {"ppa_span_start", "ppa_span_end", "ppa_span_text",
                                   "excerpt_id"} : res[k] = self[k]

\* a LabeledExcerpt with a reference span and notes came back moved
C5_Witness ==
    /\ Corrected
    /\ self.cls = "LabeledExcerpt"
    /\ res.cls = "LabeledExcerpt"
    /\ res.ref_span_start = Some(0)
    /\ res.notes # None
    /\ res.ppa_span_start # self.ppa_span_start

C7_InputIdIgnored ==
    op = "from_dict" =>
        LET r == from_dict(arg.cls, DictWithout(arg.d, "excerpt_id"))
        IN /\ res = r.val
           /\ err = r.err
           /\ IsExcerpt(res) =>
                  res.excerpt_id = ExcerptId(res.detection_methods, res.ppa_span_start,
                                             res.ppa_span_end)

\* an input carrying an id other than the derived one was decoded
C7_Witness ==
    /\ op = "from_dict"
    /\ IsExcerpt(res)
    /\ "excerpt_id" \in DOMAIN arg.d
    /\ arg.d["excerpt_id"].t = "str"
    /\ arg.d["excerpt_id"].v # res.excerpt_id

\* the other fields of the keyword arguments kw pass validation
DetectionValid(kw) ==
    kw.detection_methods # {} /\ kw.detection_methods \subseteq Vocabulary
RefSpanSet(kw) == kw.ref_span_start # None /\ kw.ref_span_end # None
LabelValid(kw) ==
    /\ kw.identification_methods # {}
    /\ (kw.ref_span_start = None) = (kw.ref_span_end = None)
RefSpanValid(kw) ==
    /\ (kw.ref_span_start = None) = (kw.ref_span_end = None)
    /\ RefSpanSet(kw) => kw.ref_span_end[1] > kw.ref_span_start[1]

\* C8: construction rejects every interval whose end <= start (Span, the
\* page span of an Excerpt, the reference span of a LabeledExcerpt) with a
\* range error and creates no instance; with end > start and the other fields
\* valid it succeeds.  No instance ever holds an empty or reversed interval.
C8_IntervalsValidated ==
    /\ op = "Span" =>
           IF arg.end <= arg.start
           THEN err.exc = "ValueError" /\ res = NoValue
           ELSE /\ err = NoError
                /\ res = [cls |-> "Span", start |-> arg.start, end |-> arg.end,
                          label |-> arg.label]
    /\ Constructed =>
           IF arg.ppa_span_end <= arg.ppa_span_start
           THEN /\ err.msg = "PPA span's start index must be less than its end index"
                /\ res = NoValue
           ELSE (DetectionValid(arg) /\ op = "Excerpt") => (err = NoError /\ IsExcerpt(res))
    /\ (/\ op = "LabeledExcerpt"
        /\ arg.ppa_span_end > arg.ppa_span_start
        /\ DetectionValid(arg)
        /\ LabelValid(arg)) =>
           IF RefSpanSet(arg) /\ arg.ref_span_end[1] <= arg.ref_span_start[1]
           THEN /\ err.msg = "Reference span's start index must be less than its end index"
                /\ res = NoValue
           ELSE err = NoError /\ IsExcerpt(res)
    /\ IsExcerpt(res) => res.ppa_span_end > res.ppa_span_start
    /\ (res.cls = "LabeledExcerpt" /\ res.ref_span_end # None) =>
           res.ref_span_end[1] > res.ref_span_start[1]

\* an Excerpt with end = start was refused
C8_Witness ==
    /\ op = "Excerpt"
    /\ arg.ppa_span_end = arg.ppa_span_start
    /\ DetectionValid(arg)
    /\ err.exc = "ValueError"
    /\ res = NoValue

\* C9: construction checks every detection method against the vocabulary
\* whatever the size of the set: a set with a member outside it is refused
\* with an error naming exactly the offending members, and no instance holds
\* an unrecognised method.
C9_EveryMethodValidated ==
    /\ (/\ Constructed
        /\ arg.ppa_span_end > arg.ppa_span_start
        /\ arg.detection_methods \ Vocabulary # {}) =>
           /\ err.msg = "Unsupported detection method"
           /\ err.vals = arg.detection_methods \ Vocabulary
           /\ res = NoValue
    /\ IsExcerpt(res) => res.detection_methods \subseteq Vocabulary

\* a set of one supported and one unsupported method was refused
C9_Witness ==
    /\ Constructed
    /\ arg.detection_methods = {manual, bogus}
    /\ err.msg = "Unsupported detection method"
    /\ err.vals = {bogus}

\* C10: an empty detection_methods, or an empty identification_methods of a
\* LabeledExcerpt, is refused; any non-empty identification_methods is
\* accepted when the other fields are valid.
C10_MethodSetsNotEmpty ==
    /\ (Constructed /\ arg.detection_methods = {}) =>
           /\ err.exc = "ValueError"
           /\ res = NoValue
           /\ arg.ppa_span_end > arg.ppa_span_start =>
                  err.msg = "Must specify at least one detection method"
    /\ (op = "LabeledExcerpt" /\ arg.identification_methods = {}) =>
           /\ err.exc = "ValueError"
           /\ res = NoValue
           /\ (arg.ppa_span_end > arg.ppa_span_start /\ DetectionValid(arg)) =>
                  err.msg = "Must specify at least one identification method"
    /\ (/\ op = "LabeledExcerpt"
        /\ arg.identification_methods # {}
        /\ arg.ppa_span_end > arg.ppa_span_start
        /\ DetectionValid(arg)
        /\ RefSpanValid(arg)) => (err = NoError /\ IsExcerpt(res))
    /\ IsExcerpt(res) => res.detection_methods # {}
    /\ res.cls = "LabeledExcerpt" => res.identification_methods # {}

\* a LabeledExcerpt valid but for its empty identification_methods was refused
C10_Witness ==
    /\ op = "LabeledExcerpt"
    /\ arg.identification_methods = {}
    /\ DetectionValid(arg)
    /\ arg.ppa_span_end > arg.ppa_span_start
    /\ err.msg = "Must specify at least one identification method"

\* the keyword arguments kw of a LabeledExcerpt are valid but for the
\* reference span
ValidButRefSpan(kw) ==
    /\ kw.ppa_span_end > kw.ppa_span_start
    /\ DetectionValid(kw)
    /\ kw.identification_methods # {}

\* C11 as stated: in every LabeledExcerpt ref_span_start, ref_span_end and
\* ref_span_text are all set or all unset, and a construction that sets only
\* some of the three is refused with a reference-span error.
C11_RefSpanAllThreeOrNone ==
    /\ res.cls = "LabeledExcerpt" =>
           /\ (res.ref_span_start = None) = (res.ref_span_end = None)
           /\ (res.ref_span_start = None) = (res.ref_span_text = None)
    /\ (/\ op = "LabeledExcerpt"
        /\ ValidButRefSpan(arg)
        /\ \/ (arg.ref_span_start = None) # (arg.ref_span_end = None)
           \/ (arg.ref_span_start = None) # (arg.ref_span_text = None)) =>
           /\ err.msg = "Reference span's start and end index must both be set"
           /\ res = NoValue

\* C11 amended: in every LabeledExcerpt ref_span_start and ref_span_end are
\* both set or both unset, and a construction that sets only one of the two
\* is refused with a reference-span error; ref_span_text is not tied to them:
\* a construction that is otherwise valid succeeds with the ref_span_text it
\* was given, whether or not the indices are set.
C11_RefSpanIndicesTogether ==
    /\ res.cls = "LabeledExcerpt" =>
           (res.ref_span_start = None) = (res.ref_span_end = None)
    /\ (/\ op = "LabeledExcerpt"
        /\ ValidButRefSpan(arg)
        /\ (arg.ref_span_start = None) # (arg.ref_span_end = None)) =>
           /\ err.exc = "ValueError"
           /\ err.msg = "Reference span's start and end index must both be set"
           /\ res = NoValue
    /\ (/\ op = "LabeledExcerpt"
        /\ ValidButRefSpan(arg)
        /\ RefSpanValid(arg)) =>
           /\ err = NoError
           /\ res.ref_span_text = arg.ref_span_text

\* a LabeledExcerpt given ref_span_start and ref_span_text but no
\* ref_span_end was refused
C11_Witness ==
    /\ op = "LabeledExcerpt"
    /\ ValidButRefSpan(arg)
    /\ arg.ref_span_start # None
    /\ arg.ref_span_end = None
    /\ arg.ref_span_text # None
    /\ err.msg = "Reference span's start and end index must both be set"

\* C12: for every excerpt e (Excerpt or LabeledExcerpt), from_dict of the
\* class of e on e.to_dict() succeeds and returns an instance equal to e in
\* every field, detection_methods, identification_methods and excerpt_id
\* included, whatever the order of the lists to_dict made.
C12_ToDictRoundTrip ==
    [][(op = "to_dict" /\ op' = "from_dict" /\ arg'.cls = self.cls) =>
           (err' = NoError /\ res' = self)]_vars

\* a LabeledExcerpt with two identification methods and an unset
\* ref_span_text came back from its to_dict form
C12_Witness ==
    /\ op = "from_dict"
    /\ self.cls = "LabeledExcerpt"
    /\ arg.cls = "LabeledExcerpt"
    /\ arg.d["identification_methods"].t = "list"
    /\ Len(arg.d["identification_methods"].v) = 2
    /\ "ref_span_text" \notin DOMAIN arg.d
    /\ res = self
    /\ res.ref_span_text = None

\* C13: for every excerpt e, from_dict of the class of e on e.to_csv()
\* succeeds and returns an instance equal to e: every set field comes back
\* with exactly the same members after being joined with "; " and split
\* again, for every member string identification_methods may hold.
C13_ToCsvRoundTrip ==
    [][(op = "to_csv" /\ op' = "from_dict" /\ arg'.cls = self.cls) =>
           (err' = NoError /\ res' = self)]_vars

\* the number of whitespace characters s starts with, and ends with
RECURSIVE LeadingSpaces(_)
LeadingSpaces(s) ==
    IF s # <<>> /\ IsSpace(s[1]) THEN 1 + LeadingSpaces(Tail(s)) ELSE 0
RECURSIVE TrailingSpaces(_)
TrailingSpaces(s) ==
    IF s # <<>> /\ IsSpace(s[Len(s)])
    THEN 1 + TrailingSpaces(SubSeq(s, 1, Len(s) - 1)) ELSE 0

\* the receiver of strip_whitespace with its text cut by L characters on the
\* left and R on the right and its offsets moved accordingly
Stripped(e, L, R) ==
    LET start == e.ppa_span_start + L
        end == e.ppa_span_end - R
    IN [e EXCEPT !.ppa_span_start = start,
                 !.ppa_span_end = end,
                 !.ppa_span_text = SubSeq(e.ppa_span_text, L + 1,
                                          Len(e.ppa_span_text) - R),
                 !.excerpt_id = ExcerptId(e.detection_methods, start, end)]

\* C14 as stated: for every excerpt e whose text starts with L and ends with
\* R whitespace characters, strip_whitespace returns an excerpt with the
\* stripped text, ppa_span_start + L and ppa_span_end - R; with no outer
\* whitespace the result equals e.
C14_StripAnyExcerpt ==
    op = "strip_whitespace" =>
        /\ err = NoError
        /\ res = Stripped(self, LeadingSpaces(self.ppa_span_text),
                          TrailingSpaces(self.ppa_span_text))

\* C14 amended: the same, provided ppa_span_end - R > ppa_span_start + L;
\* otherwise (a text of whitespace only, for which L = R = its length, or a
\* text whose outer whitespace is as long as the span) strip_whitespace
\* raises the range error of the constructor and returns no excerpt.
C14_StripWhenSpanRemains ==
    op = "strip_whitespace" =>
        LET L == LeadingSpaces(self.ppa_span_text)
            R == TrailingSpaces(self.ppa_span_text)
        IN IF self.ppa_span_end - R > self.ppa_span_start + L
           THEN /\ err = NoError
                /\ res = Stripped(self, L, R)
                /\ (L = 0 /\ R = 0) => res = self
           ELSE /\ err.exc = "ValueError"
                /\ err.msg = "PPA span's start index must be less than its end index"
                /\ res = NoValue

\* " a " at 0..12 was stripped to "a" at 1..11
C14_Witness ==
    /\ op = "strip_whitespace"
    /\ self.ppa_span_text = PaddedText
    /\ self.ppa_span_start = 0
    /\ self.ppa_span_end = 12
    /\ res.ppa_span_text = <<"a">>
    /\ res.ppa_span_start = 1
    /\ res.ppa_span_end = 11

\* the value from_excerpt is to give field k: the keyword if there is one,
\* else the field of the excerpt, else the default
Expected(ex, kwargs, k) ==
    IF k \in DOMAIN kwargs THEN kwargs[k]
    ELSE IF k \in DOMAIN ex THEN ex[k]
    ELSE None

\* C16: LabeledExcerpt.from_excerpt(ex, **extra) returns a valid
\* LabeledExcerpt whose page_id, offsets, text, detection_methods and notes
\* are those of ex unless extra overrides them, whose other fields come from
\* extra, and whose excerpt_id is recomputed from the result (so it is the
\* id of ex when extra overrides neither the offsets nor the detection
\* methods); it succeeds whenever the fields so combined are valid.
C16_FromExcerpt ==
    op = "from_excerpt" =>
        LET f == [k \in InitFields("LabeledExcerpt") \cap
                        (DOMAIN arg \cup DOMAIN self \cup DefaultedFields) |->
                     Expected(self, arg, k)]
            complete == DOMAIN f = InitFields("LabeledExcerpt")
        IN /\ err = NoError =>
                  /\ complete
                  /\ res.cls = "LabeledExcerpt"
                  /\ \A k \in InitFields("LabeledExcerpt") : res[k] = f[k]
                  /\ res.excerpt_id = ExcerptId(res.detection_methods,
                                                res.ppa_span_start, res.ppa_span_end)
                  /\ (DOMAIN arg \cap {"ppa_span_start", "ppa_span_end",
                                        "detection_methods"} = {}) =>
                         res.excerpt_id = self.excerpt_id
                  /\ res.ppa_span_end > res.ppa_span_start
                  /\ DetectionValid(res)
                  /\ RefSpanValid(res)
                  /\ res.identification_methods # {}
           /\ (/\ complete
               /\ f.ppa_span_end > f.ppa_span_start
               /\ DetectionValid(f)
               /\ LabelValid(f)
               /\ RefSpanValid(f)) => err = NoError

\* an Excerpt detected manually was labelled with its detection_methods
\* overridden: the notes were kept and the id changed
C16_Witness ==
    /\ op = "from_excerpt"
    /\ self.cls = "Excerpt"
    /\ self.detection_methods = {manual}
    /\ self.notes = Some(<<"n">>)
    /\ "detection_methods" \in DOMAIN arg
    /\ arg.detection_methods = {xml}
    /\ res.cls = "LabeledExcerpt"
    /\ res.detection_methods = {xml}
    /\ res.notes = Some(<<"n">>)
    /\ res.excerpt_id # self.excerpt_id

\* the methods of an excerpt (from_excerpt takes it as its argument)
Methods ==
    {"to_dict", "to_csv", "strip_whitespace", "correct_page_excerpt", "from_excerpt"}

ListsAsStrings(cls, d) ==
    [k \in DOMAIN d |-> IF k \in SetFields(cls)
                        THEN StrV(Join(d[k].v, MULTIVAL_DELIMITER)) ELSE d[k]]
ListsAsSets(cls, d) ==
    [k \in DOMAIN d |-> IF k \in SetFields(cls) THEN SetV(Range(d[k].v)) ELSE d[k]]

\* C17: from_dict takes each set field as a list, a "; "-delimited string or
\* a set, and decodes the three forms of the same members alike: the dict
\* with lists, the dict with the joined strings and the dict with the sets
\* have the same outcome; a set field of any other type makes from_dict fail
\* with an error naming the field, and no instance is returned.
C17_SetFieldForms ==
    (op = "from_dict" /\ SetFields(arg.cls) \subseteq DOMAIN arg.d) =>
        LET unexpected == {k \in SetFields(arg.cls) :
                              arg.d[k].t \notin {"list", "str", "set"}}
        IN /\ unexpected # {} =>
                  /\ err.exc = "ValueError"
                  /\ err.msg = "Unexpected value type"
                  /\ err.vals[2] \in unexpected
                  /\ res = NoValue
           /\ (\A k \in SetFields(arg.cls) : arg.d[k].t = "list") =>
                  /\ from_dict(arg.cls, ListsAsStrings(arg.cls, arg.d))
                         = [val |-> res, err |-> err]
                  /\ from_dict(arg.cls, ListsAsSets(arg.cls, arg.d))
                         = [val |-> res, err |-> err]

\* the integer whose decimal form is the string s
Decimal(s) == CHOOSE n \in -9..19 : IntToStr(n) = s

\* the int fields of the dict d given to from_dict of cls as a non-empty
\* string, and as the empty string
StringInts(cls, d) ==
    {k \in IntFields(cls) \cap DOMAIN d : d[k].t = "str" /\ d[k].v # <<>>}
BlankInts(cls, d) ==
    {k \in IntFields(cls) \cap DOMAIN d : d[k].t = "str" /\ d[k].v = <<>>}

\* d with the integers in place of their strings and without the blank fields
WithIntegers(cls, d) ==
    [k \in DOMAIN d \ BlankInts(cls, d) |->
        IF k \in StringInts(cls, d) THEN IntV(Decimal(d[k].v)) ELSE d[k]]

\* C18: from_dict takes a string-encoded integer for every int field and has
\* the outcome it has with the integer itself; an empty string under an int
\* field is treated as the field being absent, so that its default applies
\* (blank ref_span_start and ref_span_end give an unset reference span);
\* fields that are neither int nor set fields pass through unchanged.
C18_IntFieldStrings ==
    op = "from_dict" =>
        LET d == arg.d
            cls == arg.cls
        IN /\ from_dict(cls, WithIntegers(cls, d)) = [val |-> res, err |-> err]
           /\ err = NoError =>
                  /\ \A k \in StringInts(cls, d) :
                         res[k] = IF k \in OptionalFields THEN Some(Decimal(d[k].v))
                                  ELSE Decimal(d[k].v)
                  /\ \A k \in BlankInts(cls, d) : res[k] = None
                  /\ \A k \in DOMAIN d \ (IntFields(cls) \cup SetFields(cls)
                                              \cup {"excerpt_id"}) :
                         res[k] = IF k \in OptionalFields THEN Some(d[k].v) ELSE d[k].v

\* a LabeledExcerpt was decoded from string offsets and a blank reference
\* span
C18_Witness ==
    /\ op = "from_dict"
    /\ arg.cls = "LabeledExcerpt"
    /\ arg.d["ppa_span_end"].t = "str"
    /\ arg.d["ppa_span_end"].v = <<"1">>
    /\ {"ref_span_start", "ref_span_end"} \subseteq BlankInts(arg.cls, arg.d)
    /\ err = NoError
    /\ res.ppa_span_end = 1
    /\ res.ref_span_start = None
    /\ res.ref_span_end = None

\* the sequence seq of strings is in strictly ascending order
Ascending(seq) == \A i \in 1..(Len(seq) - 1) : StrLess(seq[i], seq[i + 1])

\* C19: to_csv encodes every set field as its members in ascending order
\* joined with "; ", so its output does not depend on the order in which the
\* sets are iterated: equal excerpts give identical to_csv output.
C19_ToCsvDeterministic ==
    op = "to_csv" =>
        /\ \A k \in SetFields(self.cls) :
               /\ res.d[k].t = "str"
               /\ \E seq \in Orderings(self[k]) :
                      /\ Ascending(seq)
                      /\ res.d[k].v = Join(seq, MULTIVAL_DELIMITER)
        /\ \A iter \in IterationOrders(self) : to_csv(self, iter).val = res

\* detection methods iterated as passim, manual were written "manual; passim"
C19_Witness ==
    /\ op = "to_csv"
    /\ arg["detection_methods"] = <<passim, manual>>
    /\ res.d["detection_methods"].v = manual \o MULTIVAL_DELIMITER \o passim

\* C20: in the output of to_dict and of to_csv a key is present exactly when
\* the field is set: an unset optional field (notes, ref_span_start,
\* ref_span_end, ref_span_text) is left out, every other field is there with
\* its value, excerpt_id included; to_dict gives each set as a list of its
\* members.
C20_KeysOfSetFields ==
    op \in {"to_dict", "to_csv"} =>
        /\ err = NoError
        /\ res.cls = "dict"
        /\ \A k \in fieldnames(self.cls) :
               k \in DOMAIN res.d <=> ~(k \in OptionalFields /\ self[k] = None)
        /\ DOMAIN res.d \subseteq fieldnames(self.cls)
        /\ "excerpt_id" \in DOMAIN res.d
        /\ res.d["excerpt_id"].v = self.excerpt_id
        /\ \A k \in DOMAIN res.d \ SetFields(self.cls) :
               /\ res.d[k].t = IF k \in IntFields(self.cls) THEN "int" ELSE "str"
               /\ res.d[k].v = IF k \in OptionalFields THEN self[k][1] ELSE self[k]
        /\ op = "to_dict" =>
               \A k \in SetFields(self.cls) :
                   /\ res.d[k].t = "list"
                   /\ Range(res.d[k].v) = self[k]
                   /\ Len(res.d[k].v) = Cardinality(self[k])

\* to_dict of a LabeledExcerpt with a reference text and no notes: the key
\* ref_span_text is there, the keys notes and ref_span_start are not
C20_Witness ==
    /\ op = "to_dict"
    /\ self.cls = "LabeledExcerpt"
    /\ self.notes = None
    /\ self.ref_span_start = None
    /\ self.ref_span_text # None
    /\ "ref_span_text" \in DOMAIN res.d
    /\ "notes" \notin DOMAIN res.d
    /\ "ref_span_start" \notin DOMAIN res.d

\* C21: overlap is symmetric: for all spans x and y and either value of
\* ignore_label, x.has_overlap(y) = y.has_overlap(x) and
\* x.overlap_length(y) = y.overlap_length(x).
C21_OverlapSymmetric ==
    /\ op = "has_overlap" =>
           res.v = has_overlap(arg.other, self, arg.ignore_label)
    /\ op = "overlap_length" =>
           res.v = overlap_length(arg.other, self, arg.ignore_label)

\* two spans of the same label that overlap in part: 0..2 and 1..2
C21_Witness ==
    /\ op = "overlap_length"
    /\ self.start = 0 /\ self.end = 2
    /\ arg.other.start = 1 /\ arg.other.end = 2
    /\ self.label = arg.other.label
    /\ ~arg.ignore_label
    /\ res.v = 1

\* the positions of the half-open interval [start, end) of a span
Positions(span) == span.start..(span.end - 1)
Shared(x, y) == Positions(x) \cap Positions(y)
LabelsMatch(x, y, ignore_label) == ignore_label \/ x.label = y.label
SameInterval(x, y) == x.start = y.start /\ x.end = y.end
\* the span still satisfies the check of its construction
ValidSpan(span) == span.end > span.start

\* C22 as stated: for all spans x and y, x.overlap_factor(y) is
\* overlap_length / max(len(x), len(y)), lies in [0, 1], is 0 when there is
\* no overlap, and is exactly 1 iff x and y have the same start and end,
\* whatever their labels.
C22_FactorOneIffSameInterval ==
    op = "overlap_factor" =>
        /\ err = NoError
        /\ res.den = Max(Span_len(self), Span_len(arg.other))
        /\ 0 <= res.num /\ res.num <= res.den
        /\ ~has_overlap(self, arg.other, arg.ignore_label) => res.num = 0
        /\ res.num = res.den <=> SameInterval(self, arg.other)

\* C22 amended: for spans x and y with end > start, x.overlap_factor(y,
\* ignore_label) is the number of shared positions (0 unless ignore_label
\* or the labels are equal) over the larger of the two lengths; it lies in
\* [0, 1], is 0 when there is no overlap, and is exactly 1 iff x and y have
\* the same start and end and (ignore_label or the labels are equal).  For a
\* receiver that an assignment left with end < start the call raises
\* ValueError, and for one left with end = start it returns 0.
C22_FactorOneIffExactMatch ==
    op = "overlap_factor" =>
        LET x == self
            y == arg.other
            shared == IF LabelsMatch(x, y, arg.ignore_label)
                      THEN Cardinality(Shared(x, y)) ELSE 0
        IN IF ValidSpan(x)
           THEN /\ err = NoError
                /\ res.cls = "float"
                /\ res.num = shared
                /\ res.den = Max(x.end - x.start, y.end - y.start)
                /\ 0 <= res.num /\ res.num <= res.den
                /\ res.num = res.den <=>
                       (SameInterval(x, y) /\ LabelsMatch(x, y, arg.ignore_label))
           ELSE IF x.end < x.start
           THEN err.exc = "ValueError" /\ res = NoValue
           ELSE err = NoError /\ res.num = 0

\* 0..2 against 1..2 of the same label: one shared position of two
C22_Witness ==
    /\ op = "overlap_factor"
    /\ self.start = 0 /\ self.end = 2
    /\ arg.other.start = 1 /\ arg.other.end = 2
    /\ self.label = arg.other.label
    /\ err = NoError
    /\ res.num = 1
    /\ res.den = 2

\* C23: for all spans x and y, has_overlap is true iff (ignore_label or the
\* labels are equal) and the half-open intervals share a position, so that
\* spans that only touch do not overlap; overlap_length is the number of
\* shared positions in that case and 0 otherwise; is_exact_match is true iff
\* starts and ends are equal and (ignore_label or the labels are equal).
C23_HalfOpenOverlap ==
    /\ op = "has_overlap" =>
           (res.v <=> (LabelsMatch(self, arg.other, arg.ignore_label)
                       /\ Shared(self, arg.other) # {}))
    /\ op = "overlap_length" =>
           res.v = IF LabelsMatch(self, arg.other, arg.ignore_label)
                   THEN Cardinality(Shared(self, arg.other)) ELSE 0
    /\ op = "is_exact_match" =>
           (res.v <=> (SameInterval(self, arg.other)
                       /\ LabelsMatch(self, arg.other, arg.ignore_label)))

\* C24: a Span is immutable: an assignment to its start, end or label is
\* rejected and leaves the span as it was, so that every span reached by
\* any sequence of operations satisfies end > start.
C24_SpanImmutable ==
    /\ op = "Span.setattr" =>
           /\ err # NoError
           /\ self = arg.was
    /\ res.cls = "Span" => ValidSpan(res)
    /\ self.cls = "Span" => ValidSpan(self)

\* the prefix and the id that the fields of the excerpt e call for
PrefixOf(e) ==
    IF e.detection_methods = {adjudication} THEN "a"
    ELSE IF e.detection_methods = {manual} THEN "m"
    ELSE IF e.detection_methods = {passim} THEN "p"
    ELSE IF e.detection_methods = {xml} THEN "x"
    ELSE "c"
DerivedId(e) ==
    <<PrefixOf(e), "@">> \o IntToStr(e.ppa_span_start) \o <<":">>
        \o IntToStr(e.ppa_span_end)

\* C25: along every sequence of construction, from_dict, from_excerpt,
\* strip_whitespace and correct_page_excerpt, the excerpt returned and the
\* excerpt it was made from each carry the id derived from their own
\* detection_methods and offsets: the id of the result is that of its source
\* only if offsets and prefix are the same, never a stale copy.
C25_IdNeverStale ==
    /\ IsExcerpt(self) => self.excerpt_id = DerivedId(self)
    /\ IsExcerpt(res) => res.excerpt_id = DerivedId(res)
    /\ (IsExcerpt(self) /\ IsExcerpt(res)) =>
           (res.excerpt_id = self.excerpt_id <=>
                /\ res.ppa_span_start = self.ppa_span_start
                /\ res.ppa_span_end = self.ppa_span_end
                /\ PrefixOf(res) = PrefixOf(self))

\* stripping moved the start of an excerpt and its id followed
C25_Witness ==
    /\ op = "strip_whitespace"
    /\ IsExcerpt(res)
    /\ self.excerpt_id = <<"p", "@", "0", ":", "1", "2">>
    /\ res.excerpt_id = <<"p", "@", "1", ":", "1", "1">>

\* the message of the first check, in the order page span, empty detection
\* methods, unsupported detection methods, empty identification methods,
\* reference span set in part, reference span range, that the keyword
\* arguments kw of class cls fail; the empty string if they pass them all
FirstFailure(cls, kw) ==
    IF kw.ppa_span_end <= kw.ppa_span_start
    THEN "PPA span's start index must be less than its end index"
    ELSE IF kw.detection_methods = {}
    THEN "Must specify at least one detection method"
    ELSE IF ~(kw.detection_methods \subseteq Vocabulary)
    THEN "Unsupported detection method"
    ELSE IF cls # "LabeledExcerpt" THEN ""
    ELSE IF kw.identification_methods = {}
    THEN "Must specify at least one identification method"
    ELSE IF (kw.ref_span_start = None) # (kw.ref_span_end = None)
    THEN "Reference span's start and end index must both be set"
    ELSE IF kw.ref_span_start # None /\ kw.ref_span_end[1] <= kw.ref_span_start[1]
    THEN "Reference span's start index must be less than its end index"
    ELSE ""

\* C26: construction validates in a fixed order and the first check that
\* fails decides the error: page span range, empty detection methods,
\* unsupported detection methods, then for a LabeledExcerpt empty
\* identification methods, reference span set in part, reference span
\* range; an instance is returned exactly when every check passes.
C26_ValidationOrder ==
    Constructed =>
        /\ err.msg = FirstFailure(op, arg)
        /\ err.msg # "" => (err.exc = "ValueError" /\ res = NoValue)
        /\ err.msg = "" => (err = NoError /\ res.cls = op)

\* a reversed page span together with an unsupported detection method was
\* reported as the page span error
C26_Witness ==
    /\ Constructed
    /\ arg.ppa_span_end < arg.ppa_span_start
    /\ arg.detection_methods = {bogus}
    /\ err.msg = "PPA span's start index must be less than its end index"

\* the text occurs in the page as a run of consecutive characters
Occurs(text, page) ==
    \E i \in 0..(Len(page) - Len(text)) : SubSeq(page, i + 1, i + Len(text)) = text

\* C27: if the non-empty text of the excerpt occurs verbatim in page_text,
\* then whichever optimal alignment is taken correct_page_excerpt returns the
\* same text, with offsets that locate an occurrence of it in page_text,
\* whatever offsets the excerpt claimed.
C27_VerbatimTextIsLocated ==
    (/\ op = "correct_page_excerpt"
     /\ self.ppa_span_text # <<>>
     /\ Occurs(self.ppa_span_text, arg)) =>
        /\ err = NoError
        /\ res.ppa_span_text = self.ppa_span_text
        /\ res.ppa_span_start >= 0
        /\ res.ppa_span_end = res.ppa_span_start + Len(self.ppa_span_text)
        /\ res.ppa_span_end <= Len(arg)
        /\ SubSeq(arg, res.ppa_span_start + 1, res.ppa_span_end) = self.ppa_span_text

\* "a " claimed at 0..12 was found at 1..3 of " a "
C27_Witness ==
    /\ op = "correct_page_excerpt"
    /\ self.ppa_span_text = <<"a", " ">>
    /\ self.ppa_span_end = 12
    /\ arg = <<" ", "a", " ">>
    /\ res.ppa_span_start = 1
    /\ res.ppa_span_end = 3

\* the poem spans before page i of a results file that get_passim_excerpts
\* has to turn into excerpts
RECURSIVE SpansBefore(_, _)
SpansBefore(file, i) ==
    IF i <= 1 THEN 0
    ELSE SpansBefore(file, i - 1)
         + (IF file[i - 1].n_spans > 0 THEN Len(file[i - 1].poem_spans) ELSE 0)
HasFieldsRead(file) ==
    \A i \in DOMAIN file : \A j \in DOMAIN file[i].poem_spans :
        Range(SpanKeysRead) \subseteq DOMAIN file[i].poem_spans[j]
TextsOf(corpus, page_id) ==
    IF corpus = None THEN {}
    ELSE {i \in DOMAIN corpus[1] : corpus[1][i].id = page_id}
\* the excerpt of poem span j of page i of the file, as it is before any
\* correction
Uncorrected(e, page, span) ==
    /\ e.cls = "LabeledExcerpt"
    /\ e.page_id = page.page_id
    /\ e.ppa_span_start = span.page_start
    /\ e.ppa_span_end = span.page_end
    /\ e.ppa_span_text = span.page_excerpt
    /\ e.detection_methods = {passim}
    /\ e.identification_methods = {passim}
    /\ e.poem_id = span.ref_id
    /\ e.ref_corpus = span.ref_corpus
    /\ e.ref_span_start = Some(span.ref_start)
    /\ e.ref_span_end = Some(span.ref_end)
    /\ e.ref_span_text = Some(span.ref_excerpt)
OneExcerptPerSpan(file, corpus, yielded) ==
    /\ Len(yielded) = SpansBefore(file, Len(file) + 1)
    /\ \A i \in DOMAIN file : \A j \in DOMAIN file[i].poem_spans :
           file[i].n_spans > 0 =>
               LET e == yielded[SpansBefore(file, i) + j]
                   page == file[i]
                   span == page.poem_spans[j]
                   texts == TextsOf(corpus, page.page_id)
               IN IF texts = {}
                  THEN Uncorrected(e, page, span)
                  ELSE \E o \in correct_page_excerpt(
                                    [e EXCEPT !.ppa_span_start = span.page_start,
                                              !.ppa_span_end = span.page_end,
                                              !.ppa_span_text = span.page_excerpt,
                                              !.excerpt_id = DerivedId(
                                                  [e EXCEPT
                                                      !.ppa_span_start = span.page_start,
                                                      !.ppa_span_end = span.page_end])],
                                    corpus[1][CHOOSE t \in texts :
                                                  \A u \in texts : u <= t].text) :
                          /\ o.err = NoError
                          /\ o.val = e
                          /\ Uncorrected([e EXCEPT
                                             !.ppa_span_start = span.page_start,
                                             !.ppa_span_end = span.page_end,
                                             !.ppa_span_text = span.page_excerpt],
                                         page, span)

\* C28: get_passim_excerpts yields exactly one LabeledExcerpt for each poem
\* span of every page record with n_spans > 0, in page order and then span
\* order, with detection_methods and identification_methods {passim}; page
\* records with n_spans = 0 yield nothing; the excerpt is the result of
\* correct_page_excerpt exactly when a text corpus was given that holds a
\* text for the page, and is as the span describes it otherwise.
C28_OneExcerptPerSpan ==
    (op = "get_passim_excerpts" /\ HasFieldsRead(arg.input_file)) =>
        /\ err = NoError
        /\ OneExcerptPerSpan(arg.input_file, arg.ppa_text_corpus, res.yielded)

\* the alignment records whose page is page_id, in the order they were read
MatchesOf(alignment_records, page_id) ==
    LET OnPage(a) == a.id2 = page_id
    IN SelectSeq(alignment_records, OnPage)
IsSpanOf(span, a) ==
    /\ "page_id" \notin DOMAIN span
    /\ span.ref_id = a.id
    /\ span.ref_corpus = a.corpus
    /\ span.ref_start = a.begin
    /\ span.ref_end = a.end
    /\ span.page_start = a.begin2
    /\ span.page_end = a.end2
    /\ span.matches = a.matches
Built == op = "build_passim_page_results" /\ err = NoError

\* C29: after build_passim_page_results has added the passim matches, every
\* page of the PPA corpus has exactly one page record and no other page has
\* one, n_spans of a record is the length of its poem_spans, the poem_spans
\* of a page are the matches that name it as page_id, each once and in the
\* order read, and a page without matches has n_spans 0 and no poem spans.
C29_PageRecordsHoldTheirMatches ==
    Built =>
        /\ \A i \in DOMAIN arg.ppa_corpus :
               Cardinality({k \in DOMAIN res.records :
                               res.records[k].page_id = arg.ppa_corpus[i].id}) = 1
        /\ \A k \in DOMAIN res.records :
               LET record == res.records[k]
                   found == MatchesOf(arg.alignment_records, record.page_id)
               IN /\ \E i \in DOMAIN arg.ppa_corpus :
                         arg.ppa_corpus[i].id = record.page_id
                  /\ record.n_spans = Len(record.poem_spans)
                  /\ Len(record.poem_spans) = Len(found)
                  /\ \A j \in DOMAIN found : IsSpanOf(record.poem_spans[j], found[j])
                  /\ found = <<>> => (record.n_spans = 0 /\ record.poem_spans = <<>>)

\* two matches on one page of a corpus of two pages, the other page without
C29_Witness ==
    /\ Built
    /\ Len(res.records) = 2
    /\ \E k \in DOMAIN res.records : res.records[k].n_spans = 2
    /\ \E k \in DOMAIN res.records :
           res.records[k].n_spans = 0 /\ res.records[k].poem_spans = <<>>

\* the reference records hold every text the poem spans refer to
RefsPresent(records, ref_records) ==
    \A k \in DOMAIN records : \A j \in DOMAIN records[k].poem_spans :
        \E i \in DOMAIN ref_records :
            /\ ref_records[i].corpus = records[k].poem_spans[j].ref_corpus
            /\ ref_records[i].id = records[k].poem_spans[j].ref_id

\* C30: get_passim_excerpts, given the page records that
\* build_passim_page_results built from corpora holding every matched page
\* and reference text, finds in each poem span every field it reads and so
\* does not fail on a missing field.
C30_BuiltRecordsAreReadable ==
    (op = "get_passim_excerpts" /\ self.cls = "page_results"
     /\ RefsPresent(self.records, arg.built_from.ref_records)) =>
        /\ HasFieldsRead(arg.input_file)
        /\ err.exc # "KeyError"

====
